---- MODULE Spec2Model ----
(***************************************************************************)
(* Model of the download / extraction orchestration of myrient-downloader. *)
(*                                                                         *)
(* The main process of the program is a single JavaScript thread: a piece  *)
(* of code between two awaits runs to completion, and other events (a      *)
(* cancel message, a reply of the server, another start request) are       *)
(* handled only while every run is suspended at an await.  A run of        *)
(* DownloadManager.startDownload is a record run[r] whose field pc names   *)
(* the await the run is suspended at, or the synchronous code it is about  *)
(* to execute (a "sync" label); while some run is at a sync label only     *)
(* that run takes steps.                                                   *)
(***************************************************************************)
EXTENDS Integers, Sequences, FiniteSets, TLC

\* ------------------------------------------------------------------ bounds
NumFiles == 2      \* files of the catalogue that a selection can name
MaxSize == 2       \* largest remote / local file size, in bytes
MaxRuns == 2       \* run slots (invocations of startDownload alive at once)
MaxStarts == 1     \* start requests a behaviour of the host makes
MaxClicks == 2     \* clicks on the start button in one behaviour
MaxEntries == 2    \* entries of a zip archive
MaxCatalog == 3    \* files of the list handed to applyFilters
MaxRevision == 1   \* largest parsed revision of a file
MaxPriority == 2   \* length of the longest priority list
MaxMajor == 2      \* largest first component of a version marker
MaxSmall == 2      \* small numbers of a marker are 0..MaxSmall

FileIds == 1..NumFiles
RunIds == 1..MaxRuns
Sizes == 0..MaxSize
Absent == -1       \* size of a path at which no file exists

VARIABLES
    opt,     \* arguments of startDownload: createSubfolder, maintainFolderStructure, ...
    items,   \* arguments of startDownload: the selected files / directories
    zip,     \* zip[f]: the name of file f ends in .zip
    remote,  \* remote[f]: Content-Length the server reports for file f
    disk,    \* local file system: path -> size, for the files that exist
    dirs,    \* local file system: the directories that exist
    mgr,     \* DownloadManager fields
    info,    \* DownloadInfoService fields
    dl,      \* DownloadService fields
    run,     \* run[r]: locals and position of invocation r of startDownload
    ui,      \* renderer: DownloadUI state and the start requests in flight
    starts,  \* number of start requests (host) or clicks (renderer) so far
    flt,     \* FilterService.applyFilters: its arguments and its lists
    prs      \* FileParserService: file names and their parsed revisions

vars == <<opt, items, zip, remote, disk, dirs, mgr, info, dl, run, ui, starts, flt, prs>>

\* ------------------------------------------------------------ generic helpers
Merge(old, new) ==
    [k \in DOMAIN old |-> IF k \in DOMAIN new THEN new[k] ELSE old[k]]

IsPrefix(d, p) ==
    /\ Len(d) <= Len(p)
    /\ \A i \in 1..Len(d) : d[i] = p[i]

Range(s) == {s[i] : i \in 1..Len(s)}


\* ------------------------------------------------------------------ names
Stems == <<"a", "b", "c">>
ZipNames == <<"a.zip", "b.zip", "c.zip">>
BinNames == <<"a.bin", "b.bin", "c.bin">>
SelectedDir == "sel"    \* last segment of baseUrl: the directory browsed
SubDir == "sub"         \* a directory item of the selection
StrayNames == {"x.txt", "A.ZIP", "a.zip.part"}

\* String.prototype.toLowerCase on the names of the model
toLowerCase(n) ==
    CASE n = "A.ZIP" -> "a.zip"
      [] n = "B.ZIP" -> "b.zip"
      [] n = "C.ZIP" -> "c.zip"
      [] OTHER -> n

\* fileInfo.name
FileName(f) == IF zip[f] THEN ZipNames[f] ELSE BinNames[f]

\* path.parse(filename).name
ParsedName(f) == Stems[f]

\* name.toLowerCase().endsWith('.zip')
EndsWithZip(n) == toLowerCase(n) \in Range(ZipNames)

\* ------------------------------------------------------------------ paths
\* A path is the sequence of its segments below the target directory.
BaseDir == <<>>

dirname(p) == SubSeq(p, 1, Len(p) - 1)

\* Directory of the file's href relative to the parent of the selected
\* directory: files named directly lie in the selected directory, files found
\* by expanding a directory item lie below it.
HrefDir(inSub) == IF inSub THEN <<SelectedDir, SubDir>> ELSE <<SelectedDir>>

calculatePaths(f, inSub, createSubfolder, maintainFolderStructure) ==
    LET finalTargetDir == IF createSubfolder THEN <<ParsedName(f)>> ELSE BaseDir
        targetPath == IF maintainFolderStructure
                      THEN finalTargetDir \o HrefDir(inSub) \o <<FileName(f)>>
                      ELSE finalTargetDir \o <<FileName(f)>>
        extractPath == IF maintainFolderStructure THEN dirname(targetPath)
                       ELSE IF createSubfolder THEN <<ParsedName(f)>>
                       ELSE BaseDir
    IN  [targetPath |-> targetPath, extractPath |-> extractPath]

\* `${name}.part`
PartName(n) ==
    CASE n = "a.zip" -> "a.zip.part"
      [] n = "b.zip" -> "b.zip.part"
      [] n = "c.zip" -> "c.zip.part"
      [] n = "a.bin" -> "a.bin.part"
      [] n = "b.bin" -> "b.bin.part"
      [] n = "c.bin" -> "c.bin.part"

\* `${targetPath}.part`: a sibling of the target in the same directory
PartPath(p) == dirname(p) \o <<PartName(p[Len(p)])>>

\* ------------------------------------------------------------- file system
existsSync(p) == p \in DOMAIN disk \/ p \in dirs

\* fs.promises.readdir: names of the children of directory d
readdir(d) ==
    {p[Len(d) + 1] : p \in {q \in (DOMAIN disk) \cup dirs :
                                 Len(q) > Len(d) /\ IsPrefix(d, q)}}

\* Mutant: the names are compared with regard to case
isAlreadyExtractedCaseSensitive(extractionPath, archiveFilename) ==
    /\ extractionPath \in dirs
    /\ \E n \in readdir(extractionPath) : n # archiveFilename

\* FileSystemService.isAlreadyExtracted
isAlreadyExtracted(extractionPath, archiveFilename) ==
    /\ extractionPath \in dirs
    /\ \E n \in readdir(extractionPath) :
           toLowerCase(n) # toLowerCase(archiveFilename)

\* all ancestors of a path, the target directory included
Ancestors(p) == {SubSeq(p, 1, k) : k \in 0..(Len(p) - 1)}

\* fs.mkdirSync(dir, {recursive: true})
MkdirP(ds, d) == ds \cup Ancestors(d) \cup {d}

WriteFile(dk, p, size) ==
    [q \in (DOMAIN dk) \cup {p} |-> IF q = p THEN size ELSE dk[q]]

Unlink(dk, p) == [q \in (DOMAIN dk) \ {p} |-> dk[q]]

\* ------------------------------------------------------------ the selection
FileItem(f) == [type |-> "file", f |-> f, files |-> <<>>]
DirItem(fs) == [type |-> "directory", f |-> 0, files |-> fs]

\* The selections of the model: files 1..k named directly, then possibly one
\* directory whose listing holds files k+1..n.
Selections ==
    {[j \in 1..k |-> FileItem(j)] \o
       (IF k < n THEN <<DirItem([j \in 1..(n - k) |-> k + j])>> ELSE <<>>) :
         k \in 0..NumFiles, n \in 1..NumFiles} \ {<<>>}

Options == [createSubfolder : BOOLEAN, maintainFolderStructure : BOOLEAN,
            extractAndDelete : BOOLEAN, extractPreviouslyDownloaded : BOOLEAN,
            isThrottlingEnabled : BOOLEAN]

\* ------------------------------------------------------------- the objects
\* AbortController objects are named by the run whose reset() created them,
\* 0 names the one the constructor created.
CtlIds == 0..MaxRuns

\* locals of one invocation of startDownload and of the calls it makes
IdleRun ==
    [pc |-> "idle",
     \* getDownloadInfo
     itemIdx |-> 1, allFilesToProcess |-> <<>>, signal |-> 0, i |-> 1,
     scanTotalSize |-> 0, scanSkippedSize |-> 0, scanFilesToDownload |-> <<>>,
     scanSkippedFiles |-> <<>>, skippedBecauseExtractedCount |-> 0,
     skippedBecauseDownloadedCount |-> 0, headBranch |-> "none",
     \* startDownload
     scanResult |-> FALSE, allSkippedFiles |-> <<>>, totalSize |-> 0,
     skippedSize |-> 0, summaryMessage |-> "", wasCancelled |-> FALSE,
     partialFile |-> <<>>, downloadedFiles |-> <<>>, filesToDownload |-> <<>>,
     e |-> "none", ePartialFile |-> <<>>, logged |-> "", filesForExtraction |-> <<>>,
     \* downloadFiles
     fileIndex |-> 1, fileDownloaded |-> 0, totalDownloaded |-> 0,
     totalBytesFailed |-> 0, dlSkippedFiles |-> <<>>, dlDownloadedFiles |-> <<>>,
     getSignal |-> 0, bodyLeft |-> 0, buffered |-> 0, source |-> "none",
     \* the 'download-file-progress' events of the file the loop has just
     \* handled and the last 'download-overall-progress' event
     fileProgress |-> <<>>, overallProgress |-> <<>>,
     \* extractFiles
     archiveFiles |-> <<>>, pass |-> 1, k |-> 1, totalEntriesOverall |-> 0,
     totalUncompressedSizeOfAllArchives |-> 0, overallExtractedBytes |-> 0,
     overallExtractedEntryCount |-> 0, entry |-> 1, extractedFiles |-> <<>>,
     \* what the run has sent and done so far (observation only)
     heads |-> 0, headFailed |-> {}, gets |-> 0, streamEnded |-> {},
     completeEvents |-> <<>>, extractionStarted |-> 0,
     extractionEnded |-> 0, cancelStage |-> "none", cancelPc |-> "none",
     orphans |-> {}, extractedArchives |-> {},
     stoppedArchives |-> {}, startedCancelled |-> FALSE,
     progressTotals |-> {}, stage |-> "idle"]

\* ------------------------------------------------------------- FilterService
\* A parsed file is a record of base_name, tags (in the order of the file
\* name) and revision; its name is base_name followed by the tags in
\* parentheses.
RegionTags == {"USA", "Europe", "Japan"}
DiscTags == {"Disc 1", "Disc 2"}
TagLists == {<<"USA">>, <<"Europe">>, <<"Japan">>,
             <<"USA", "Disc 1">>, <<"USA", "Disc 2">>}
ParsedFiles ==
    [base_name : {"A"}, tags : TagLists, revision : 0..MaxRevision] \cup
    [base_name : {"B"}, tags : {<<"USA">>}, revision : 0..MaxRevision]

\* the lists of at most n different elements of S
RECURSIVE ListsOf(_, _)
ListsOf(S, n) ==
    IF n = 0 THEN {<<>>}
    ELSE LET shorter == ListsOf(S, n - 1) IN
         shorter \cup {Append(l, x) : l \in shorter, x \in S}

DistinctLists(S, n) ==
    {l \in ListsOf(S, n) : \A i, j \in 1..Len(l) : i # j => l[i] # l[j]}

\* name.toLowerCase().includes(s.toLowerCase()) for the names of the model
\* and the strings "usa" and "B"
includes(file, s) ==
    CASE s = "usa" -> "USA" \in Range(file.tags)
      [] s = "B" -> file.base_name = "B"

\* /^(Disc|Cart|Side) /.test(t) for the tags of the model
IsDiscTag(t) == t \in DiscTags

FilterSets ==
    [include_tags : {{}, {"USA"}}, exclude_tags : {{}, {"Japan"}},
     include_strings : {<<>>}, exclude_strings : {<<>>},
     rev_mode : {"all", "highest"}, dedupe_mode : {"all"},
     priority_list : {<<>>}] \cup
    [include_tags : {{}}, exclude_tags : {{}},
     include_strings : {<<>>, <<"usa">>}, exclude_strings : {<<>>, <<"B">>},
     rev_mode : {"all"}, dedupe_mode : {"all", "priority"},
     priority_list : {<<>>}] \cup
    [include_tags : {{}}, exclude_tags : {{}},
     include_strings : {<<>>}, exclude_strings : {<<>>},
     rev_mode : {"all", "highest"}, dedupe_mode : {"priority"},
     priority_list : DistinctLists(RegionTags, MaxPriority)] \cup
    [include_tags : {{}, {"USA"}}, exclude_tags : {{}, {"Japan"}},
     include_strings : {<<>>, <<"usa">>}, exclude_strings : {<<>>, <<"B">>},
     rev_mode : {"highest"}, dedupe_mode : {"priority"},
     priority_list : {<<"USA">>, <<"Europe", "USA">>}]

FilterIdle ==
    [allFiles |-> <<>>,
     filters |-> [include_tags |-> {}, exclude_tags |-> {},
                  include_strings |-> <<>>, exclude_strings |-> <<>>,
                  rev_mode |-> "all", dedupe_mode |-> "all",
                  priority_list |-> <<>>],
     listAfterTags |-> <<>>, listAfterStrings |-> <<>>,
     listAfterRev |-> <<>>, finalList |-> <<>>, done |-> FALSE]

\* _applyTagFilter (lines 380-393)
applyTagFilter(fileList, includeTags, excludeTags) ==
    IF includeTags = {} /\ excludeTags = {} THEN fileList
    ELSE SelectSeq(fileList, LAMBDA file :
             /\ includeTags = {} \/ Range(file.tags) \cap includeTags # {}
             /\ excludeTags = {} \/ Range(file.tags) \cap excludeTags = {})

\* _applyStringFilter (lines 355-369)
applyStringFilter(fileList, include, exclude) ==
    IF Len(include) = 0 /\ Len(exclude) = 0 THEN fileList
    ELSE SelectSeq(fileList, LAMBDA file :
             /\ Len(include) = 0 \/ \E s \in Range(include) : includes(file, s)
             /\ ~(Len(exclude) > 0 /\ \E s \in Range(exclude) : includes(file, s)))

\* The keys of groupedGames: a Map iterates in the order of insertion, the
\* order in which the base names first occur (lines 408-414, 449-455).
RECURSIVE groupKeys(_, _)
groupKeys(fileList, seen) ==
    IF fileList = <<>> THEN <<>>
    ELSE IF Head(fileList).base_name \in seen THEN groupKeys(Tail(fileList), seen)
    ELSE <<Head(fileList).base_name>> \o
         groupKeys(Tail(fileList), seen \cup {Head(fileList).base_name})

\* groupedGames.get(baseName)
filesForGame(fileList, baseName) ==
    SelectSeq(fileList, LAMBDA f : f.base_name = baseName)

\* Math.max of a non-empty set of numbers
Max(S) == CHOOSE m \in S : \A x \in S : x <= m

\* Mutant: of the files with the highest revision only the first is kept
firstHighestRevisionFile(files) ==
    LET maxRevision == Max({f.revision : f \in Range(files)})
        highest == SelectSeq(files, LAMBDA f : f.revision = maxRevision)
    IN  <<Head(highest)>>

\* Lines 420-423: the files of one game with the highest revision
highestRevisionFiles(files) ==
    LET maxRevision == Max({f.revision : f \in Range(files)}) IN
    SelectSeq(files, LAMBDA f : f.revision = maxRevision)

RECURSIVE revisionGroups(_, _)
revisionGroups(keys, fileList) ==
    IF keys = <<>> THEN <<>>
    ELSE highestRevisionFiles(filesForGame(fileList, Head(keys))) \o
         revisionGroups(Tail(keys), fileList)

\* Mutant: the highest revisions are selected in every mode
applyRevisionFilterAnyMode(fileList, mode) ==
    revisionGroups(groupKeys(fileList, {}), fileList)

\* Mutant: finalList receives the highest revisions of the last game first
applyRevisionFilterReversed(fileList, mode) ==
    IF mode = "all" THEN fileList
    ELSE LET finalList == revisionGroups(groupKeys(fileList, {}), fileList) IN
         [i \in 1..Len(finalList) |-> finalList[Len(finalList) + 1 - i]]

\* _applyRevisionFilter (lines 403-429)
applyRevisionFilter(fileList, mode) ==
    IF mode = "all" THEN fileList
    ELSE IF mode = "highest" THEN revisionGroups(groupKeys(fileList, {}), fileList)
    ELSE fileList

\* Mutant: every tag of the priority list counts one
priorityOne(tag, priorityList) ==
    IF tag \in Range(priorityList) THEN 1 ELSE 0

\* priorityMap.get(tag) || 0 (lines 446-447, 467): the Map keeps, for a tag,
\* the value of its last position in the list
priorityOf(tag, priorityList) ==
    IF tag \in Range(priorityList)
    THEN LET i == Max({k \in 1..Len(priorityList) : priorityList[k] = tag}) IN
         Len(priorityList) - (i - 1)
    ELSE 0

\* currentScore (lines 465-468, 484-487)
RECURSIVE currentScore(_, _)
currentScore(tags, priorityList) ==
    IF tags = <<>> THEN 0
    ELSE priorityOf(Head(tags), priorityList) + currentScore(Tail(tags), priorityList)

hasDiscTag(file) == \E t \in Range(file.tags) : IsDiscTag(t)

\* Mutant: the first file with the best score is kept, disc files or not
keptOfGameBestOnly(gameVersions, priorityList) ==
    LET score(f) == currentScore(f.tags, priorityList)
        bestScore == Max({score(f) : f \in Range(gameVersions)})
        allFilesWithBestScore == SelectSeq(gameVersions, LAMBDA f : score(f) = bestScore)
    IN  <<Head(allFilesWithBestScore)>>

\* Mutant: without disc files every file with the best score is kept
keptOfGameAllTies(gameVersions, priorityList) ==
    LET score(f) == currentScore(f.tags, priorityList)
        bestScore == Max({score(f) : f \in Range(gameVersions)})
        allFilesWithBestScore == SelectSeq(gameVersions, LAMBDA f : score(f) = bestScore)
        discFilesWithBestScore == SelectSeq(allFilesWithBestScore, hasDiscTag)
    IN  IF Len(discFilesWithBestScore) > 0 THEN discFilesWithBestScore
        ELSE allFilesWithBestScore

\* Lines 461-498: what is kept of one game.  bestFile is the first file
\* whose score exceeds every score before it, the first one with bestScore.
keptOfGame(gameVersions, priorityList) ==
    LET score(f) == currentScore(f.tags, priorityList)
        bestScore == Max({score(f) : f \in Range(gameVersions)})
        allFilesWithBestScore == SelectSeq(gameVersions, LAMBDA f : score(f) = bestScore)
        bestFile == Head(allFilesWithBestScore)
        discFilesWithBestScore == SelectSeq(allFilesWithBestScore, hasDiscTag)
    IN  IF Len(discFilesWithBestScore) > 0 THEN discFilesWithBestScore
        ELSE <<bestFile>>

RECURSIVE dedupeGroups(_, _, _)
dedupeGroups(keys, fileList, priorityList) ==
    IF keys = <<>> THEN <<>>
    ELSE keptOfGame(filesForGame(fileList, Head(keys)), priorityList) \o
         dedupeGroups(Tail(keys), fileList, priorityList)

\* [...new Set(list)]: the first occurrence of every element, in order
RECURSIVE unique(_, _)
unique(list, seen) ==
    IF list = <<>> THEN <<>>
    ELSE IF Head(list) \in seen THEN unique(Tail(list), seen)
    ELSE <<Head(list)>> \o unique(Tail(list), seen \cup {Head(list)})

\* _applyDedupeFilter (lines 439-503)
applyDedupeFilter(fileList, mode, priorityList) ==
    IF mode = "all" THEN fileList
    ELSE IF mode = "priority"
    THEN unique(dedupeGroups(groupKeys(fileList, {}), fileList, priorityList), {})
    ELSE fileList

\* applyFilters (lines 338-344): the list it returns
applyFilters(allFiles, filters) ==
    LET listAfterTags == applyTagFilter(allFiles, filters.include_tags,
                                        filters.exclude_tags)
        listAfterStrings == applyStringFilter(listAfterTags, filters.include_strings,
                                              filters.exclude_strings)
        listAfterRev == applyRevisionFilter(listAfterStrings, filters.rev_mode)
    IN  applyDedupeFilter(listAfterRev, filters.dedupe_mode, filters.priority_list)

\* applyFilters (lines 338-344), called by the wizard
ApplyFilters ==
    /\ ~flt.done
    /\ Len(flt.allFiles) > 0
    /\ LET filters == flt.filters
           listAfterTags == applyTagFilter(flt.allFiles, filters.include_tags,
                                           filters.exclude_tags)
           listAfterStrings == applyStringFilter(listAfterTags, filters.include_strings,
                                                 filters.exclude_strings)
           listAfterRev == applyRevisionFilter(listAfterStrings, filters.rev_mode)
           finalList == applyDedupeFilter(listAfterRev, filters.dedupe_mode,
                                          filters.priority_list)
       IN  flt' = [flt EXCEPT !.listAfterTags = listAfterTags,
                              !.listAfterStrings = listAfterStrings,
                              !.listAfterRev = listAfterRev,
                              !.finalList = finalList,
                              !.done = TRUE]
    /\ UNCHANGED <<opt, items, zip, remote, disk, dirs, mgr, info, dl, run, ui, starts, prs>>

\* ---------------------------------------------------------- FileParserService
\* A file name is known by the one release marker it carries, the text
\* between parentheses that _parseRevision looks for: a version or revision
\* number of one to three components, "Beta N", "Beta", "Alpha N", "Alpha",
\* "Proto" with or without a date elsewhere in the name, or none.
MinorDivisor == 1000       \* parts[1] / 1000
PreReleaseDivisor == 100   \* num / 100
MaxDate == 99999999        \* the largest YYYYMMDD that \d{4}-\d{2}-\d{2} accepts

\* Revisions are fractions; the model holds them multiplied by Scale.
Scale == 100000000

\* the numbers a marker of the model carries: small ones and the ones
\* around the divisors
SmallNumbers == 0..MaxSmall
ComponentNumbers == SmallNumbers \cup {MinorDivisor - 1, MinorDivisor}
PreReleaseNumbers ==
    SmallNumbers \cup {PreReleaseDivisor - 1, PreReleaseDivisor, PreReleaseDivisor + 1}
Dates == {0, 19991231, MaxDate}

VersionParts ==
    {<<x>> : x \in 0..MaxMajor} \cup
    {<<x, y>> : x \in 0..MaxMajor, y \in ComponentNumbers} \cup
    {<<x, y, z>> : x \in 0..MaxMajor, y \in ComponentNumbers, z \in ComponentNumbers}

Marker(kind, parts, n) == [kind |-> kind, parts |-> parts, n |-> n]

FileNames ==
    {Marker("none", <<>>, 0), Marker("beta", <<>>, 0), Marker("alpha", <<>>, 0),
     Marker("proto", <<>>, 0)} \cup
    {Marker("v", parts, 0) : parts \in VersionParts} \cup
    {Marker("rev", <<n>>, 0) : n \in 0..MaxMajor} \cup
    {Marker("betaN", <<>>, n) : n \in PreReleaseNumbers} \cup
    {Marker("alphaN", <<>>, n) : n \in PreReleaseNumbers} \cup
    {Marker("protoDate", <<>>, d) : d \in Dates}

\* Lines 76-81: the number of a version match
parseVersion(parts) ==
    (IF Len(parts) > 0 THEN parts[1] * Scale ELSE 0) +
    (IF Len(parts) > 1 THEN parts[2] * (Scale \div MinorDivisor) ELSE 0) +
    (IF Len(parts) > 2 THEN parts[3] * (Scale \div (MinorDivisor * MinorDivisor)) ELSE 0)

\* _parseRevision (lines 70-119), times Scale
parseRevision(name) ==
    IF name.kind \in {"v", "rev"} THEN parseVersion(name.parts)
    ELSE IF name.kind = "betaN"
    THEN (0 - 1) * Scale + name.n * (Scale \div PreReleaseDivisor)
    ELSE IF name.kind = "beta" THEN (0 - 2) * Scale
    ELSE IF name.kind = "alphaN"
    THEN (0 - 3) * Scale + name.n * (Scale \div PreReleaseDivisor)
    ELSE IF name.kind = "alpha" THEN (0 - 4) * Scale
    ELSE IF name.kind = "protoDate" THEN (0 - 5) * Scale + name.n
    ELSE IF name.kind = "proto" THEN (0 - 6) * Scale
    ELSE 0

ParserIdle == [names |-> <<>>, parsed |-> <<>>, revision |-> <<>>]

\* parseFilename (lines 20-51) for the i-th name of a listing
ParseFilename(i) ==
    /\ i \in 1..Len(prs.names)
    /\ ~prs.parsed[i]
    /\ prs' = [prs EXCEPT !.parsed[i] = TRUE,
                          !.revision[i] = parseRevision(prs.names[i])]
    /\ UNCHANGED <<opt, items, zip, remote, disk, dirs, mgr, info, dl, run, ui, starts, flt>>

InitObjects ==
    /\ mgr = [isCancelled |-> FALSE]
    /\ info = [cur |-> 0, aborted |-> [c \in CtlIds |-> FALSE]]
    /\ dl = [downloadCancelled |-> FALSE, cur |-> 0,
             aborted |-> [c \in CtlIds |-> FALSE]]
    /\ run = [r \in RunIds |-> IdleRun]
    /\ ui = [scanBtnDisabled |-> FALSE, isDownloading |-> FALSE, clicks |-> 0,
             requests |-> 0]
    /\ starts = 0
    /\ flt = FilterIdle
    /\ prs = ParserIdle

\* ------------------------------------------------------------- scheduling
\* Labels at which a run is executing synchronous code; every other label is
\* an await (or idle / done).
SyncLabels == {"expand", "scanLoop", "scanReturn", "dlLoop", "catch", "finish",
               "extractFiles", "exCountLoop", "exLoop", "exEntry", "exEnd",
               "complete"}

Quiescent == \A q \in RunIds : run[q].pc \notin SyncLabels

Set(r, new) == run' = [run EXCEPT ![r] = Merge(@, new)]

\* "done": startDownload has returned; "rejected": its promise was rejected
Free(r) == run[r].pc \in {"idle", "done", "rejected"}

\* DownloadInfoService.isCancelled
infoIsCancelled == info.aborted[info.cur]

\* DownloadService.isCancelled
dlIsCancelled == dl.downloadCancelled

\* ---------------------------------------------------- DownloadManager.cancel
\* The 'cancel-download' message: DownloadManager.cancel and the two cancel
\* methods it calls.  cancelStage and cancelPc remember, for each active run,
\* the stage it was in and the await it was suspended at when cancellation
\* was first requested.
\* the responses of run q that the abort of the current controller leaves open
StillOpen(q) == {o \in run[q].orphans : o.signal # dl.cur}

Cancel ==
    /\ Quiescent
    /\ \E q \in RunIds : ~Free(q)
    /\ mgr' = [mgr EXCEPT !.isCancelled = TRUE]
    /\ info' = [info EXCEPT !.aborted[info.cur] = TRUE]
    /\ dl' = [dl EXCEPT !.downloadCancelled = TRUE, !.aborted[dl.cur] = TRUE]
    /\ run' = [q \in RunIds |->
                 IF ~Free(q) /\ run[q].cancelStage = "none"
                 THEN [run[q] EXCEPT !.cancelStage = run[q].stage,
                                     !.cancelPc = run[q].pc,
                                     !.orphans = StillOpen(q)]
                 ELSE [run[q] EXCEPT !.orphans = StillOpen(q)]]
    /\ UNCHANGED <<opt, items, zip, remote, disk, dirs, ui, starts, flt, prs>>

\* Mutant: startDownload does not call reset()
StartDownloadWithoutReset(r) ==
    /\ Quiescent
    /\ ui.requests > 0
    /\ Free(r)
    /\ \A q \in RunIds : q < r => ~Free(q)
    /\ ui' = [ui EXCEPT !.requests = @ - 1]
    /\ run' = [run EXCEPT ![r] = [IdleRun EXCEPT !.pc = "expand",
                                                 !.stage = "scan",
                                                 !.startedCancelled =
                                                     mgr.isCancelled]]
    /\ UNCHANGED <<opt, items, zip, remote, disk, dirs, mgr, info, dl, starts, flt, prs>>

\* ---------------------------------------------- DownloadManager.startDownload
\* The 'start-download' handler up to the call of getDownloadInfo: reset()
\* and the locals.  The run takes the lowest free slot.
StartDownload(r) ==
    /\ Quiescent
    /\ ui.requests > 0
    /\ Free(r)
    /\ \A q \in RunIds : q < r => ~Free(q)
    /\ ui' = [ui EXCEPT !.requests = @ - 1]
    /\ mgr' = [mgr EXCEPT !.isCancelled = FALSE]
    /\ info' = [info EXCEPT !.cur = r, !.aborted[r] = FALSE]
    /\ dl' = [dl EXCEPT !.downloadCancelled = FALSE, !.cur = r,
                        !.aborted[r] = FALSE]
    /\ run' = [run EXCEPT ![r] = [IdleRun EXCEPT !.pc = "expand",
                                                 !.stage = "scan",
                                                 !.startedCancelled =
                                                     mgr.isCancelled]]
    /\ UNCHANGED <<opt, items, zip, remote, disk, dirs, starts, flt, prs>>

\* ------------------------------------------ DownloadInfoService.getDownloadInfo
\* The loop over the selected items: a file is pushed, a directory is
\* fetched (getPage) and its files are pushed.  After the loop the axios
\* session is created with the abort signal that is current then.
Expand(r) ==
    /\ run[r].pc = "expand"
    /\ LET k == run[r].itemIdx IN
       IF k > Len(items)
       THEN Set(r, [pc |-> "scanLoop", signal |-> info.cur, i |-> 1])
       ELSE IF items[k].type = "directory"
       THEN Set(r, [pc |-> "getPage"])
       ELSE Set(r, [itemIdx |-> k + 1,
                    allFilesToProcess |-> Append(run[r].allFilesToProcess,
                        [f |-> items[k].f, inSub |-> FALSE])])
    /\ UNCHANGED <<opt, items, zip, remote, disk, dirs, mgr, info, dl, ui, starts, flt, prs>>

\* The directory listing arrives, or the fetch fails.  The loop over the
\* links checks for cancellation before every link.
GetPageReply(r, ok) ==
    /\ Quiescent
    /\ run[r].pc = "getPage"
    /\ LET k == run[r].itemIdx IN
       IF ~ok
       THEN Set(r, [pc |-> "catch", e |-> "Failed to fetch directory"])
       ELSE IF infoIsCancelled
       THEN Set(r, [pc |-> "catch", e |-> "CANCELLED_SCAN"])
       ELSE Set(r, [pc |-> "expand", itemIdx |-> k + 1,
                    allFilesToProcess |-> run[r].allFilesToProcess \o
                        [j \in 1..Len(items[k].files) |->
                            [f |-> items[k].files[j], inSub |-> TRUE]]])
    /\ UNCHANGED <<opt, items, zip, remote, disk, dirs, mgr, info, dl, ui, starts, flt, prs>>

Paths(fi) ==
    calculatePaths(fi.f, fi.inSub, opt.createSubfolder, opt.maintainFolderStructure)

\* Head of the scan loop: the cancellation check, the already-extracted test
\* and the HEAD request of file i; after the last file the scan returns.
ScanLoop(r) ==
    /\ run[r].pc = "scanLoop"
    /\ IF run[r].i > Len(run[r].allFilesToProcess)
       THEN Set(r, [pc |-> "scanReturn", scanResult |-> TRUE])
       ELSE IF infoIsCancelled
       THEN Set(r, [pc |-> "catch", e |-> "CANCELLED_SCAN"])
       ELSE LET fi == run[r].allFilesToProcess[run[r].i] IN
            Set(r, [pc |-> "head", heads |-> run[r].heads + 1,
                    headBranch |-> IF isAlreadyExtracted(Paths(fi).extractPath,
                                                         FileName(fi.f))
                                   THEN "extracted" ELSE "probe"])
    /\ UNCHANGED <<opt, items, zip, remote, disk, dirs, mgr, info, dl, ui, starts, flt, prs>>

\* fileInfo of file i as the scan leaves it
Task(fi, kind, size, downloadedBytes, skip, path) ==
    [f |-> fi.f, inSub |-> fi.inSub, kind |-> kind, size |-> size,
     downloadedBytes |-> downloadedBytes, skip |-> skip, path |-> path]

\* Mutant: a smaller local file is not resumed
ClassifyWithoutResume(fi, remoteSize) ==
    LET targetPath == Paths(fi).targetPath IN
    IF targetPath \in DOMAIN disk /\ remoteSize > 0 /\ disk[targetPath] = remoteSize
    THEN Task(fi, "downloaded", remoteSize, Absent, TRUE, targetPath)
    ELSE Task(fi, "toDownload", remoteSize, Absent, FALSE, <<>>)

\* The comparison of the local file with the remote size (lines 149-170).
Classify(fi, remoteSize) ==
    LET targetPath == Paths(fi).targetPath IN
    IF targetPath \in DOMAIN disk
    THEN LET localSize == disk[targetPath] IN
         IF remoteSize > 0 /\ localSize = remoteSize
         THEN Task(fi, "downloaded", remoteSize, Absent, TRUE, targetPath)
         ELSE IF remoteSize > 0 /\ localSize < remoteSize
         THEN Task(fi, "toDownload", remoteSize, localSize, FALSE, <<>>)
         ELSE Task(fi, "toDownload", remoteSize, Absent, FALSE, <<>>)
    ELSE Task(fi, "toDownload", remoteSize, Absent, FALSE, <<>>)

\* Mutant: a failed HEAD request ends the scan
HeadFailedAborts(r, fi) == [pc |-> "catch", e |-> "HEAD failed"]

\* The catch of the HEAD request (lines 171-174): the failure marker, and the
\* loop goes on with the next file.
HeadFailed(r, fi) ==
    [pc |-> "scanLoop", i |-> run[r].i + 1,
     scanSkippedFiles |-> Append(run[r].scanSkippedFiles,
                                 Task(fi, "scanFailed", Absent, Absent, TRUE, <<>>))]

\* The HEAD request of file i settles: with the remote size, or with an
\* error (always an error once the session's signal is aborted).  headFailed
\* remembers the files whose HEAD failed outside the already-extracted branch.
HeadReply(r, ok) ==
    /\ Quiescent
    /\ run[r].pc = "head"
    /\ ok => ~info.aborted[run[r].signal]
    /\ LET fi == run[r].allFilesToProcess[run[r].i]
           remoteSize == remote[fi.f]
           t == Classify(fi, remoteSize)
       IN
       IF run[r].headBranch = "extracted"
       THEN Set(r, [pc |-> "scanLoop", i |-> run[r].i + 1,
                    skippedBecauseExtractedCount |->
                        run[r].skippedBecauseExtractedCount + 1,
                    scanTotalSize |-> run[r].scanTotalSize +
                        (IF ok THEN remoteSize ELSE 0),
                    scanSkippedSize |-> run[r].scanSkippedSize +
                        (IF ok THEN remoteSize ELSE 0),
                    scanSkippedFiles |-> Append(run[r].scanSkippedFiles,
                        Task(fi, "extracted", IF ok THEN remoteSize ELSE Absent,
                             Absent, TRUE, <<>>))])
       ELSE IF ~ok
       THEN Set(r, HeadFailed(r, fi) @@
                   [headFailed |-> run[r].headFailed \cup {fi.f}])
       ELSE Set(r, [pc |-> "scanLoop", i |-> run[r].i + 1,
                    scanTotalSize |-> run[r].scanTotalSize + remoteSize,
                    scanSkippedSize |-> run[r].scanSkippedSize +
                        (IF t.kind = "downloaded" THEN remoteSize
                         ELSE IF t.downloadedBytes # Absent THEN t.downloadedBytes
                         ELSE 0),
                    skippedBecauseDownloadedCount |->
                        run[r].skippedBecauseDownloadedCount +
                        (IF t.kind = "downloaded" THEN 1 ELSE 0),
                    scanFilesToDownload |->
                        IF t.kind = "toDownload"
                        THEN Append(run[r].scanFilesToDownload, t)
                        ELSE run[r].scanFilesToDownload,
                    scanSkippedFiles |->
                        IF t.kind = "downloaded"
                        THEN Append(run[r].scanSkippedFiles, t)
                        ELSE run[r].scanSkippedFiles])
    /\ UNCHANGED <<opt, items, zip, remote, disk, dirs, mgr, info, dl, ui, starts, flt, prs>>

\* ---------------------------------------------- DownloadManager.startDownload
\* Lines 166-208: the scan has returned.  Either nothing is left to download,
\* or downloadFiles is called.
\* Mutant: the check of line 166 is missing
CancelledDuringScanUnchecked == FALSE

\* Line 166: cancellation was requested while the scan ran
CancelledDuringScan == mgr.isCancelled

\* a 'download-overall-progress' event
OverallProgress(current, total) == [current |-> current, total |-> total]

ScanReturn(r) ==
    /\ run[r].pc = "scanReturn"
    /\ IF CancelledDuringScan
       THEN Set(r, [pc |-> "catch", e |-> "CANCELLED_DURING_SCAN"])
       ELSE LET extracted == SelectSeq(run[r].scanSkippedFiles,
                                       LAMBDA t : t.kind = "extracted")
                common == [filesToDownload |-> run[r].scanFilesToDownload,
                           totalSize |-> run[r].scanTotalSize,
                           skippedSize |-> run[r].scanSkippedSize,
                           allSkippedFiles |-> run[r].allSkippedFiles \o
                               [j \in 1..Len(extracted) |-> FileName(extracted[j].f)]]
            IN
            IF Len(run[r].scanFilesToDownload) = 0
            THEN Set(r, common @@
                   [pc |-> "finish",
                    summaryMessage |->
                       IF run[r].skippedBecauseExtractedCount = Len(items)
                       THEN "All files already extracted!"
                       ELSE IF run[r].skippedBecauseDownloadedCount = Len(items)
                       THEN "All files already downloaded!"
                       ELSE "All matched files already exist locally. Nothing to download."])
            ELSE Set(r, common @@ [pc |-> "dlLoop", stage |-> "transfer",
                                   fileIndex |-> 1,
                                   overallProgress |->
                                       <<OverallProgress(run[r].scanSkippedSize,
                                                         run[r].scanTotalSize)>>,
                                   totalDownloaded |-> run[r].scanSkippedSize,
                                   totalBytesFailed |-> 0])
    /\ UNCHANGED <<opt, items, zip, remote, disk, dirs, mgr, info, dl, ui, starts, flt, prs>>

\* ------------------------------------------------ DownloadService.downloadFiles
\* Mutant: the loop over the files does not look at the cancellation flag
DlLoopIgnoringCancel(r) ==
    /\ run[r].pc = "dlLoop"
    /\ IF run[r].fileIndex > Len(run[r].filesToDownload)
       THEN /\ Set(r, [pc |-> "finish", fileProgress |-> <<>>,
                       allSkippedFiles |-> run[r].allSkippedFiles \o
                                           run[r].dlSkippedFiles,
                       downloadedFiles |-> run[r].dlDownloadedFiles])
            /\ UNCHANGED dirs
       ELSE LET fileInfo == run[r].filesToDownload[run[r].fileIndex] IN
            IF fileInfo.skip
            THEN /\ Set(r, [fileIndex |-> run[r].fileIndex + 1,
                            fileProgress |-> <<>>])
                 /\ UNCHANGED dirs
            ELSE /\ dirs' = MkdirP(dirs, dirname(Paths(fileInfo).targetPath))
                 /\ Set(r, [pc |-> "get", gets |-> run[r].gets + 1,
                             getSignal |-> dl.cur, fileProgress |-> <<>>,
                             fileDownloaded |->
                                 IF fileInfo.downloadedBytes = Absent THEN 0
                                 ELSE fileInfo.downloadedBytes])
    /\ UNCHANGED <<opt, items, zip, remote, disk, mgr, info, dl, ui, starts, flt, prs>>

\* Head of the loop over the files to download: the cancellation check, the
\* directory of the target and the GET request; after the last file the
\* result is returned to startDownload (lines 206-207).
DlLoop(r) ==
    /\ run[r].pc = "dlLoop"
    /\ IF run[r].fileIndex > Len(run[r].filesToDownload)
       THEN /\ Set(r, [pc |-> "finish", fileProgress |-> <<>>,
                       allSkippedFiles |-> run[r].allSkippedFiles \o
                                           run[r].dlSkippedFiles,
                       downloadedFiles |-> run[r].dlDownloadedFiles])
            /\ UNCHANGED dirs
       ELSE IF dlIsCancelled
       THEN /\ Set(r, [pc |-> "catch", e |-> "CANCELLED_BETWEEN_FILES",
                       fileProgress |-> <<>>])
            /\ UNCHANGED dirs
       ELSE LET fileInfo == run[r].filesToDownload[run[r].fileIndex] IN
            IF fileInfo.skip
            THEN /\ Set(r, [fileIndex |-> run[r].fileIndex + 1,
                            fileProgress |-> <<>>])
                 /\ UNCHANGED dirs
            ELSE /\ dirs' = MkdirP(dirs, dirname(Paths(fileInfo).targetPath))
                 /\ Set(r, [pc |-> "get", gets |-> run[r].gets + 1,
                             getSignal |-> dl.cur, fileProgress |-> <<>>,
                             fileDownloaded |->
                                 IF fileInfo.downloadedBytes = Absent THEN 0
                                 ELSE fileInfo.downloadedBytes])
    /\ UNCHANGED <<opt, items, zip, remote, disk, mgr, info, dl, ui, starts, flt, prs>>

CurFile(r) == run[r].filesToDownload[run[r].fileIndex]
CurPart(r) == PartPath(Paths(CurFile(r)).targetPath)

\* fileInfo.size || 0
FileSize(r) == IF CurFile(r).size = Absent THEN 0 ELSE CurFile(r).size

\* a 'download-file-progress' event of the current file (lines 149-155)
FileProgress(r, current) ==
    [current |-> current, total |-> FileSize(r),
     currentFileIndex |-> Len(run[r].scanSkippedFiles) + (run[r].fileIndex - 1) + 1,
     totalFilesToDownload |-> Len(items)]

\* Mutant: the bytes received for the failed file stay in the running total
FailFileKeepingBytes(r) ==
    [pc |-> "dlLoop", fileIndex |-> run[r].fileIndex + 1,
     source |-> "none", bodyLeft |-> 0, buffered |-> 0,
     dlSkippedFiles |-> Append(run[r].dlSkippedFiles, FileName(CurFile(r).f)),
     totalDownloaded |-> run[r].totalDownloaded,
     totalBytesFailed |-> run[r].totalBytesFailed + FileSize(r),
     overallProgress |->
         <<OverallProgress(run[r].totalDownloaded,
                           run[r].totalSize - (run[r].totalBytesFailed + FileSize(r)))>>]

\* The catch of one file (lines 254-271): the file is recorded as skipped,
\* its bytes leave the totals, the .part file is removed.
FailFileUpdate(r) ==
    [pc |-> "dlLoop", fileIndex |-> run[r].fileIndex + 1,
     source |-> "none", bodyLeft |-> 0, buffered |-> 0,
     dlSkippedFiles |-> Append(run[r].dlSkippedFiles, FileName(CurFile(r).f)),
     totalDownloaded |-> run[r].totalDownloaded - run[r].fileDownloaded,
     totalBytesFailed |-> run[r].totalBytesFailed + FileSize(r),
     overallProgress |->
         <<OverallProgress(run[r].totalDownloaded - run[r].fileDownloaded,
                           run[r].totalSize - (run[r].totalBytesFailed + FileSize(r)))>>]

FailFile(r) ==
    /\ Set(r, FailFileUpdate(r))
    /\ disk' = IF CurPart(r) \in DOMAIN disk THEN Unlink(disk, CurPart(r)) ELSE disk

\* cleanupAndReject (line 169): writer.close(callback).  fs.WriteStream.close
\* ends the stream, so the writer emits 'finish' and then 'close'.
CleanupAndReject(r) ==
    Set(r, [pc |-> "cleanup", source |-> "none", bodyLeft |-> 0, buffered |-> 0])

\* Bytes the server sends for a GET that asks for the bytes from `from` on.
BodyLength(f, from) == IF remote[f] > from THEN remote[f] - from ELSE 0

\* The GET request settles.  A request whose signal is aborted is rejected
\* by axios with a CanceledError (name 'CanceledError', message 'canceled'),
\* which line 250 does not recognise: the file is handled as failed.
\* Otherwise the response arrives (the writer opens the .part file, appending
\* when resuming) or the request fails.
GetReply(r, ok) ==
    /\ Quiescent
    /\ run[r].pc = "get"
    /\ ok => ~dl.aborted[run[r].getSignal]
    /\ IF ok
       THEN /\ Set(r, [pc |-> "stream", source |-> "open",
                       bodyLeft |-> BodyLength(CurFile(r).f, run[r].fileDownloaded),
                       buffered |-> 0,
                       fileProgress |-> <<FileProgress(r, run[r].fileDownloaded)>>])
            /\ disk' = IF run[r].fileDownloaded > 0 /\ CurPart(r) \in DOMAIN disk
                       THEN disk
                       ELSE WriteFile(disk, CurPart(r), 0)
       ELSE FailFile(r)
    /\ UNCHANGED <<opt, items, zip, remote, dirs, mgr, info, dl, ui, starts, flt, prs>>

\* With throttling the response is piped into a Throttle: its chunks enter
\* the throttle, whose own events are the ones the handlers listen to.
SourceData(r, n) ==
    /\ Quiescent
    /\ run[r].pc = "stream"
    /\ opt.isThrottlingEnabled
    /\ run[r].source = "open"
    /\ n \in 1..run[r].bodyLeft
    /\ Set(r, [bodyLeft |-> run[r].bodyLeft - n, buffered |-> run[r].buffered + n])
    /\ UNCHANGED <<opt, items, zip, remote, disk, dirs, mgr, info, dl, ui, starts, flt, prs>>

SourceEnd(r) ==
    /\ Quiescent
    /\ run[r].pc = "stream"
    /\ opt.isThrottlingEnabled
    /\ run[r].source = "open"
    /\ run[r].bodyLeft = 0
    /\ Set(r, [source |-> "ended"])
    /\ UNCHANGED <<opt, items, zip, remote, disk, dirs, mgr, info, dl, ui, starts, flt, prs>>

\* An 'error' of the response (network failure, or the abort of its
\* request): pipe() does not forward it to the throttle.
SourceError(r) ==
    /\ Quiescent
    /\ run[r].pc = "stream"
    /\ opt.isThrottlingEnabled
    /\ run[r].source = "open"
    /\ Set(r, [source |-> "errored"])
    /\ UNCHANGED <<opt, items, zip, remote, disk, dirs, mgr, info, dl, ui, starts, flt, prs>>

\* stream.on('data') (lines 188-215), for a chunk of n bytes; the two
\* progress events are sent when 100 ms have passed since the last ones
\* (due) or the file is complete.
StreamData(r, n) ==
    /\ Quiescent
    /\ run[r].pc = "stream"
    /\ IF opt.isThrottlingEnabled
       THEN n \in 1..run[r].buffered
       ELSE run[r].source = "open" /\ n \in 1..run[r].bodyLeft
    /\ IF dlIsCancelled
       THEN /\ CleanupAndReject(r)
            /\ UNCHANGED disk
       ELSE /\ \E due \in BOOLEAN :
                 LET send == due \/ run[r].fileDownloaded + n = FileSize(r) IN
                 Set(r, [fileDownloaded |-> run[r].fileDownloaded + n,
                         totalDownloaded |-> run[r].totalDownloaded + n,
                         bodyLeft |-> IF opt.isThrottlingEnabled THEN run[r].bodyLeft
                                      ELSE run[r].bodyLeft - n,
                         buffered |-> IF opt.isThrottlingEnabled
                                      THEN run[r].buffered - n ELSE 0,
                         fileProgress |->
                             IF send
                             THEN Append(run[r].fileProgress,
                                         FileProgress(r, run[r].fileDownloaded + n))
                             ELSE run[r].fileProgress,
                         overallProgress |->
                             IF send
                             THEN <<OverallProgress(run[r].totalDownloaded + n,
                                      run[r].totalSize - run[r].totalBytesFailed)>>
                             ELSE run[r].overallProgress])
            /\ disk' = IF CurPart(r) \in DOMAIN disk
                       THEN [disk EXCEPT ![CurPart(r)] = @ + n]
                       ELSE disk
    /\ UNCHANGED <<opt, items, zip, remote, dirs, mgr, info, dl, ui, starts, flt, prs>>

\* stream.on('end'): writer.end(); the writer finishes and the rename of the
\* .part file is requested.  A response whose request was aborted is
\* destroyed and emits 'error', not 'end'.
StreamEnd(r) ==
    /\ Quiescent
    /\ run[r].pc = "stream"
    /\ IF opt.isThrottlingEnabled
       THEN run[r].source = "ended" /\ run[r].buffered = 0
       ELSE /\ run[r].source = "open" /\ run[r].bodyLeft = 0
            /\ ~dl.aborted[run[r].getSignal]
    /\ Set(r, [pc |-> "rename", source |-> "none",
               streamEnded |-> run[r].streamEnded \cup {CurFile(r).f}])
    /\ UNCHANGED <<opt, items, zip, remote, disk, dirs, mgr, info, dl, ui, starts, flt, prs>>

\* stream.on('error') (lines 240-246): without throttling the stream is the
\* response itself.
StreamError(r) ==
    /\ Quiescent
    /\ run[r].pc = "stream"
    /\ ~opt.isThrottlingEnabled
    /\ run[r].source = "open"
    /\ IF dlIsCancelled
       THEN CleanupAndReject(r) /\ UNCHANGED disk
       ELSE FailFile(r)
    /\ UNCHANGED <<opt, items, zip, remote, dirs, mgr, info, dl, ui, starts, flt, prs>>

\* writer.on('error') (lines 237-239): the .part file could not be opened or
\* written.  The promise is rejected and the catch block takes the next
\* file; nothing ends the response, which stays open until the server has
\* sent the body or the controller is aborted.
WriterError(r) ==
    /\ Quiescent
    /\ run[r].pc = "stream"
    /\ Set(r, FailFileUpdate(r) @@
               [orphans |-> run[r].orphans \cup
                   (IF run[r].source = "open" /\ ~dl.aborted[run[r].getSignal]
                    THEN {[f |-> CurFile(r).f, signal |-> run[r].getSignal]}
                    ELSE {})])
    /\ disk' = IF CurPart(r) \in DOMAIN disk THEN Unlink(disk, CurPart(r)) ELSE disk
    /\ UNCHANGED <<opt, items, zip, remote, dirs, mgr, info, dl, ui, starts, flt, prs>>

\* 'end' or 'error' of a response whose transfer was left by WriterError
OrphanEnd(r, o) ==
    /\ Quiescent
    /\ o \in run[r].orphans
    /\ Set(r, [orphans |-> run[r].orphans \ {o}])
    /\ UNCHANGED <<opt, items, zip, remote, disk, dirs, mgr, info, dl, ui, starts, flt, prs>>

\* The callback of fs.rename (lines 222-235)
RenameDone(r, ok) ==
    /\ Quiescent
    /\ run[r].pc = "rename"
    /\ ok => CurPart(r) \in DOMAIN disk
    /\ IF ok
       THEN LET targetPath == Paths(CurFile(r)).targetPath IN
            /\ disk' = Unlink(WriteFile(disk, targetPath, disk[CurPart(r)]), CurPart(r))
            /\ Set(r, [pc |-> "dlLoop", fileIndex |-> run[r].fileIndex + 1,
                       fileProgress |-> Append(run[r].fileProgress,
                                               FileProgress(r, FileSize(r))),
                       dlDownloadedFiles |-> Append(run[r].dlDownloadedFiles,
                           [CurFile(r) EXCEPT !.path = targetPath])])
       ELSE FailFile(r)
    /\ UNCHANGED <<opt, items, zip, remote, dirs, mgr, info, dl, ui, starts, flt, prs>>

\* The writer closed by cleanupAndReject emits 'finish': the handler of
\* lines 221-236 runs for it as for a completed file and requests the rename
\* of the .part file.
WriterFinish(r) ==
    /\ Quiescent
    /\ run[r].pc = "cleanup"
    /\ Set(r, [pc |-> "cleanupFinished"])
    /\ UNCHANGED <<opt, items, zip, remote, disk, dirs, mgr, info, dl, ui, starts, flt, prs>>

\* The writer emits 'close': the callback of writer.close (lines 169-185)
\* requests the unlink of the .part file if it exists, else it rejects.
WriterClosed(r) ==
    /\ Quiescent
    /\ run[r].pc = "cleanupFinished"
    /\ IF CurPart(r) \in DOMAIN disk
       THEN Set(r, [pc |-> "cleanupUnlink"])
       ELSE Set(r, [pc |-> "catch", e |-> "CANCELLED_MID_FILE",
                    ePartialFile |-> CurPart(r)])
    /\ UNCHANGED <<opt, items, zip, remote, disk, dirs, mgr, info, dl, ui, starts, flt, prs>>

\* The rename requested by the 'finish' of the closed writer completes before
\* the .part file is unlinked: the file is at its final path, it is pushed to
\* downloadedFiles and the promise is resolved (lines 222-235).  The
\* callbacks that arrive after the promise has settled find no .part file
\* and change nothing.
CleanupRenameDone(r) ==
    /\ Quiescent
    /\ run[r].pc \in {"cleanupFinished", "cleanupUnlink"}
    /\ CurPart(r) \in DOMAIN disk
    /\ LET targetPath == Paths(CurFile(r)).targetPath IN
       /\ disk' = Unlink(WriteFile(disk, targetPath, disk[CurPart(r)]), CurPart(r))
       /\ Set(r, [pc |-> "dlLoop", fileIndex |-> run[r].fileIndex + 1,
                  fileProgress |-> Append(run[r].fileProgress,
                                          FileProgress(r, FileSize(r))),
                  dlDownloadedFiles |-> Append(run[r].dlDownloadedFiles,
                      [CurFile(r) EXCEPT !.path = targetPath])])
    /\ UNCHANGED <<opt, items, zip, remote, dirs, mgr, info, dl, ui, starts, flt, prs>>

\* The unlink of the .part file completes first (lines 172-179): the promise
\* is rejected with CANCELLED_MID_FILE, which line 251 throws on to
\* startDownload.
CleanupDone(r) ==
    /\ Quiescent
    /\ run[r].pc = "cleanupUnlink"
    /\ disk' = IF CurPart(r) \in DOMAIN disk THEN Unlink(disk, CurPart(r)) ELSE disk
    /\ Set(r, [pc |-> "catch", e |-> "CANCELLED_MID_FILE",
               ePartialFile |-> CurPart(r)])
    /\ UNCHANGED <<opt, items, zip, remote, dirs, mgr, info, dl, ui, starts, flt, prs>>

\* ---------------------------------------------- DownloadManager.startDownload
CancelledMessages == {"CANCELLED_SCAN", "CANCELLED_DURING_SCAN",
                      "CANCELLED_BETWEEN_FILES", "CANCELLED_MID_FILE"}

\* e.message.startsWith('CANCELLED_')
StartsWithCancelled(e) == e \in CancelledMessages

\* The catch of startDownload (lines 210-219)
Catch(r) ==
    /\ run[r].pc = "catch"
    /\ Set(r, [pc |-> "finish",
               summaryMessage |-> IF StartsWithCancelled(run[r].e) THEN ""
                                  ELSE "Error: " ,
               wasCancelled |-> TRUE,
               partialFile |-> run[r].ePartialFile])
    /\ UNCHANGED <<opt, items, zip, remote, disk, dirs, mgr, info, dl, ui, starts, flt, prs>>

\* The archives downloaded earlier that join the extraction (lines 235-240)
PreviouslyDownloadedArchives(r) ==
    SelectSeq(run[r].scanSkippedFiles,
              LAMBDA t : /\ t.kind = "downloaded"
                         /\ t.path # <<>>
                         /\ existsSync(t.path)
                         /\ FileName(t.f) \notin Range(run[r].allSkippedFiles))

\* Mutant: only a caught error makes the run cancelled
CancelledByErrorOnly(r) == run[r].wasCancelled

\* Line 221: the run counts as cancelled
Cancelled(r) == run[r].wasCancelled \/ mgr.isCancelled

\* Mutant: a cancelled run extracts too
ShouldExtractIgnoringCancel(cancelled, filesForExtraction) ==
    opt.extractAndDelete /\ Len(filesForExtraction) > 0

\* Line 244: extractFiles is called
ShouldExtract(cancelled, filesForExtraction) ==
    opt.extractAndDelete /\ ~cancelled /\ Len(filesForExtraction) > 0

\* Lines 221-247: the cancelled flag, the summary message, and the decision
\* to extract.
Finish(r) ==
    /\ run[r].pc = "finish"
    /\ LET cancelled == Cancelled(r)
           summaryMessage == IF cancelled THEN "" ELSE run[r].summaryMessage
           filesForExtraction ==
               run[r].downloadedFiles \o
               (IF opt.extractPreviouslyDownloaded /\ run[r].scanResult
                THEN PreviouslyDownloadedArchives(r) ELSE <<>>)
       IN  Set(r, [wasCancelled |-> cancelled,
                   summaryMessage |-> summaryMessage,
                   logged |-> summaryMessage,
                   filesForExtraction |-> filesForExtraction,
                   pc |-> IF ShouldExtract(cancelled, filesForExtraction)
                          THEN "extractFiles" ELSE "complete"])
    /\ UNCHANGED <<opt, items, zip, remote, disk, dirs, mgr, info, dl, ui, starts, flt, prs>>

\* Lines 249-256: the 'download-complete' event; the renderer's handler of
\* it (DownloadUI, onDownloadComplete) enables the start button again.
Complete(r) ==
    /\ run[r].pc = "complete"
    /\ Set(r, [pc |-> "done", stage |-> "done",
               completeEvents |-> Append(run[r].completeEvents,
                   [message |-> "", skippedFiles |-> run[r].allSkippedFiles,
                    wasCancelled |-> run[r].wasCancelled,
                    partialFile |-> run[r].partialFile])])
    /\ ui' = [ui EXCEPT !.isDownloading = FALSE, !.scanBtnDisabled = FALSE]
    /\ UNCHANGED <<opt, items, zip, remote, disk, dirs, mgr, info, dl, starts, flt, prs>>

\* ------------------------------------------------ DownloadManager.extractFiles
\* Every archive of the model holds MaxEntries file entries of one byte.
EntryCount(f) == MaxEntries
EntryNames == <<<<"a.1", "a.2", "a.3">>, <<"b.1", "b.2", "b.3">>,
                <<"c.1", "c.2", "c.3">>>>

\* archiveFiles: the .zip files, one per path (a Map keyed by path keeps the
\* position of the first and the value of the last file of a path).
RECURSIVE UniquePaths(_, _)
UniquePaths(fs, seen) ==
    IF fs = <<>> THEN <<>>
    ELSE IF fs[1].path \in seen THEN UniquePaths(Tail(fs), seen)
    ELSE <<fs[1]>> \o UniquePaths(Tail(fs), seen \cup {fs[1].path})

ArchiveFiles(fs) ==
    UniquePaths(SelectSeq(fs, LAMBDA t : EndsWithZip(FileName(t.f)) /\ t.path # <<>>),
                {})

\* Lines 268-292: 'extraction-started', the archives; without archives the
\* method returns at once.
ExtractFiles(r) ==
    /\ run[r].pc = "extractFiles"
    /\ LET archiveFiles == ArchiveFiles(run[r].filesForExtraction) IN
       Set(r, [extractionStarted |-> run[r].extractionStarted + 1,
               stage |-> "extract",
               archiveFiles |-> archiveFiles,
               pass |-> 1, k |-> 1,
               pc |-> IF Len(archiveFiles) = 0 THEN "complete" ELSE "exCountLoop"])
    /\ UNCHANGED <<opt, items, zip, remote, disk, dirs, mgr, info, dl, ui, starts, flt, prs>>

\* Heads of the two counting loops (lines 293-298, 316-321)
ExCountLoop(r) ==
    /\ run[r].pc = "exCountLoop"
    /\ IF run[r].k > Len(run[r].archiveFiles)
       THEN IF run[r].pass = 1
            THEN Set(r, [pass |-> 2, k |-> 1])
            ELSE Set(r, [pc |-> "exLoop", k |-> 1])
       ELSE IF ~existsSync(run[r].archiveFiles[run[r].k].path)
       THEN Set(r, [k |-> run[r].k + 1])
       ELSE Set(r, [pc |-> "exCount"])
    /\ UNCHANGED <<opt, items, zip, remote, disk, dirs, mgr, info, dl, ui, starts, flt, prs>>

\* An archive has been opened, read to its end and closed by a counting
\* pass, or opening or reading it has failed (lines 299-313, 322-338).
\* zipfile.close() is awaited in the finally, outside every catch: when it
\* rejects, extractFiles and with it startDownload (line 246) reject.
ExCountReply(r, ok, closed) ==
    /\ Quiescent
    /\ run[r].pc = "exCount"
    /\ LET n == IF ok THEN EntryCount(run[r].archiveFiles[run[r].k].f) ELSE 0 IN
       IF ~closed THEN Set(r, [pc |-> "rejected", stage |-> "done"]) ELSE
       Set(r, [pc |-> "exCountLoop", k |-> run[r].k + 1,
               totalEntriesOverall |-> run[r].totalEntriesOverall +
                   (IF run[r].pass = 1 THEN n ELSE 0),
               totalUncompressedSizeOfAllArchives |->
                   run[r].totalUncompressedSizeOfAllArchives +
                   (IF run[r].pass = 2 THEN n ELSE 0)])
    /\ UNCHANGED <<opt, items, zip, remote, disk, dirs, mgr, info, dl, ui, starts, flt, prs>>

CurArchive(r) == run[r].archiveFiles[run[r].k]

\* An 'extraction-progress' event (lines 366-379, 427-442, 451-466, 477-492,
\* 538-553) carries the two totals; progressTotals collects the pairs the
\* events of one invocation have carried.
ExtractionProgress(r) ==
    run[r].progressTotals \cup
        {<<run[r].totalEntriesOverall, run[r].totalUncompressedSizeOfAllArchives>>}

\* Directory the entries of an archive are written to (lines 348-355)
ExtractPathOf(t) ==
    IF opt.maintainFolderStructure THEN dirname(t.path)
    ELSE IF opt.createSubfolder THEN <<ParsedName(t.f)>>
    ELSE BaseDir

EntryPath(t, j) == ExtractPathOf(t) \o <<EntryNames[t.f][j]>>

\* Head of the loop over the archives (lines 344-381)
ExLoop(r) ==
    /\ run[r].pc = "exLoop"
    /\ IF run[r].k > Len(run[r].archiveFiles)
       THEN Set(r, [pc |-> "exEnd"])
       ELSE IF ~existsSync(CurArchive(r).path)
       THEN Set(r, [k |-> run[r].k + 1])
       ELSE Set(r, [pc |-> "exOpen", extractedFiles |-> <<>>, entry |-> 1,
                    progressTotals |-> ExtractionProgress(r)])
    /\ UNCHANGED <<opt, items, zip, remote, disk, dirs, mgr, info, dl, ui, starts, flt, prs>>

\* Mutant: the entries counted when an archive is opened for extraction are
\* added to the overall entry count
ExOpenReplyGrowingTotal(r, ok) ==
    /\ Quiescent
    /\ run[r].pc = "exOpen"
    /\ Set(r, [pc |-> IF ok THEN "exEntry" ELSE "exFinally",
               totalEntriesOverall |-> run[r].totalEntriesOverall +
                   (IF ok THEN EntryCount(CurArchive(r).f) ELSE 0),
               stoppedArchives |-> IF ok THEN run[r].stoppedArchives
                                   ELSE run[r].stoppedArchives \cup {run[r].k}])
    /\ UNCHANGED <<opt, items, zip, remote, disk, dirs, mgr, info, dl, ui, starts, flt, prs>>

\* Lines 381-393: the archive is opened, counted, closed, opened again and
\* its first entry read; a failure is caught at line 515.
ExOpenReply(r, ok) ==
    /\ Quiescent
    /\ run[r].pc = "exOpen"
    /\ Set(r, [pc |-> IF ok THEN "exEntry" ELSE "exFinally",
               stoppedArchives |-> IF ok THEN run[r].stoppedArchives
                                   ELSE run[r].stoppedArchives \cup {run[r].k}])
    /\ UNCHANGED <<opt, items, zip, remote, disk, dirs, mgr, info, dl, ui, starts, flt, prs>>

\* Mutant: the archive is deleted although the entry loop was cancelled
ExEntryUnlinksWhenCancelled(r) ==
    /\ run[r].pc = "exEntry"
    /\ IF mgr.isCancelled
       THEN /\ Set(r, [pc |-> "exUnlink",
                       stoppedArchives |-> run[r].stoppedArchives \cup {run[r].k}])
            /\ UNCHANGED <<disk, dirs>>
       ELSE IF run[r].entry > EntryCount(CurArchive(r).f)
       THEN /\ Set(r, [pc |-> "exUnlink",
                       extractedArchives |-> run[r].extractedArchives \cup {run[r].k}])
            /\ UNCHANGED <<disk, dirs>>
       ELSE LET entryPath == EntryPath(CurArchive(r), run[r].entry) IN
            /\ Set(r, [pc |-> "exWrite",
                       progressTotals |-> ExtractionProgress(r),
                       overallExtractedEntryCount |->
                           run[r].overallExtractedEntryCount + 1,
                       extractedFiles |-> Append(run[r].extractedFiles, entryPath)])
            /\ dirs' = MkdirP(dirs, dirname(entryPath))
            /\ disk' = WriteFile(disk, entryPath, 0)
    /\ UNCHANGED <<opt, items, zip, remote, mgr, info, dl, ui, starts, flt, prs>>

\* Head of the loop over the entries (lines 394-442) and the code after the
\* loop (lines 512-514).
ExEntry(r) ==
    /\ run[r].pc = "exEntry"
    /\ IF mgr.isCancelled
       THEN /\ Set(r, [pc |-> "exFinally",
                       stoppedArchives |-> run[r].stoppedArchives \cup {run[r].k}])
            /\ UNCHANGED <<disk, dirs>>
       ELSE IF run[r].entry > EntryCount(CurArchive(r).f)
       THEN /\ Set(r, [pc |-> "exUnlink",
                       extractedArchives |-> run[r].extractedArchives \cup {run[r].k}])
            /\ UNCHANGED <<disk, dirs>>
       ELSE LET entryPath == EntryPath(CurArchive(r), run[r].entry) IN
            /\ Set(r, [pc |-> "exWrite",
                       progressTotals |-> ExtractionProgress(r),
                       overallExtractedEntryCount |->
                           run[r].overallExtractedEntryCount + 1,
                       extractedFiles |-> Append(run[r].extractedFiles, entryPath)])
            /\ dirs' = MkdirP(dirs, dirname(entryPath))
            /\ disk' = WriteFile(disk, entryPath, 0)
    /\ UNCHANGED <<opt, items, zip, remote, mgr, info, dl, ui, starts, flt, prs>>

\* readStream.on('data') for the one chunk of the entry (lines 445-473), or
\* an 'error' of one of the two streams (lines 496-507).
ExData(r, ok) ==
    /\ Quiescent
    /\ run[r].pc = "exWrite"
    /\ LET entryPath == EntryPath(CurArchive(r), run[r].entry) IN
       IF ~ok
       THEN /\ Set(r, [pc |-> "exFinally",
                       stoppedArchives |-> run[r].stoppedArchives \cup {run[r].k}])
            /\ UNCHANGED disk
       ELSE /\ Set(r, [pc |-> IF mgr.isCancelled THEN "exFinally" ELSE "exFinish",
                       stoppedArchives |-> IF mgr.isCancelled
                                           THEN run[r].stoppedArchives \cup {run[r].k}
                                           ELSE run[r].stoppedArchives,
                       progressTotals |-> ExtractionProgress(r),
                       overallExtractedBytes |-> run[r].overallExtractedBytes + 1])
            /\ disk' = IF mgr.isCancelled \/ entryPath \notin DOMAIN disk THEN disk
                       ELSE [disk EXCEPT ![entryPath] = @ + 1]
    /\ UNCHANGED <<opt, items, zip, remote, dirs, mgr, info, dl, ui, starts, flt, prs>>

\* writeStream.on('finish') and the next readEntry (lines 475-510)
ExFinish(r) ==
    /\ Quiescent
    /\ run[r].pc = "exFinish"
    /\ Set(r, [pc |-> "exEntry", entry |-> run[r].entry + 1,
               progressTotals |-> IF mgr.isCancelled THEN run[r].progressTotals
                                  ELSE ExtractionProgress(r)])
    /\ UNCHANGED <<opt, items, zip, remote, disk, dirs, mgr, info, dl, ui, starts, flt, prs>>

\* fs.promises.unlink of the archive (line 513)
ExUnlinkDone(r) ==
    /\ Quiescent
    /\ run[r].pc = "exUnlink"
    /\ disk' = IF CurArchive(r).path \in DOMAIN disk
               THEN Unlink(disk, CurArchive(r).path) ELSE disk
    /\ Set(r, [pc |-> "exFinally"])
    /\ UNCHANGED <<opt, items, zip, remote, dirs, mgr, info, dl, ui, starts, flt, prs>>

\* Mutant: the finally leaves the files written from a cancelled archive
ExFinallyKeepingOutputs(r, closed) ==
    /\ Quiescent
    /\ run[r].pc = "exFinally"
    /\ IF ~closed
       THEN Set(r, [pc |-> "rejected", stage |-> "done"])
       ELSE Set(r, [pc |-> IF mgr.isCancelled THEN "exEnd" ELSE "exLoop",
                    k |-> run[r].k + 1])
    /\ UNCHANGED <<opt, items, zip, remote, disk, dirs, mgr, info, dl, ui, starts, flt, prs>>

\* The finally of one archive (lines 517-535): zipfile.close, the removal of
\* the files written from this archive when cancelled, and the break.  A
\* rejection of zipfile.close() leaves the finally, extractFiles and
\* startDownload at once.
ExFinally(r, closed) ==
    /\ Quiescent
    /\ run[r].pc = "exFinally"
    /\ disk' = IF closed /\ mgr.isCancelled
               THEN [p \in (DOMAIN disk) \ Range(run[r].extractedFiles) |-> disk[p]]
               ELSE disk
    /\ IF ~closed
       THEN Set(r, [pc |-> "rejected", stage |-> "done"])
       ELSE Set(r, [pc |-> IF mgr.isCancelled THEN "exEnd" ELSE "exLoop",
                    k |-> run[r].k + 1])
    /\ UNCHANGED <<opt, items, zip, remote, dirs, mgr, info, dl, ui, starts, flt, prs>>

\* Lines 538-560: the last progress event and 'extraction-ended'
ExEnd(r) ==
    /\ run[r].pc = "exEnd"
    /\ Set(r, [pc |-> "complete",
               progressTotals |-> ExtractionProgress(r),
               extractionEnded |-> run[r].extractionEnded + 1])
    /\ UNCHANGED <<opt, items, zip, remote, disk, dirs, mgr, info, dl, ui, starts, flt, prs>>

\* ------------------------------------------------------------------- the host
\* A host that asks for a download only while no run is active and no request
\* is in flight.
HostRequest ==
    /\ Quiescent
    /\ \A q \in RunIds : Free(q)
    /\ ui.requests = 0
    /\ starts < MaxStarts
    /\ ui' = [ui EXCEPT !.requests = 1]
    /\ starts' = starts + 1
    /\ UNCHANGED <<opt, items, zip, remote, disk, dirs, mgr, info, dl, run, flt, prs>>

\* ------------------------------------------------------ DownloadUI.startDownload
\* A click on the start button (UIManager, line 848) calls startDownload,
\* which awaits checkDownloadDirectoryStructure before it does anything else.
\* A disabled button receives no click.
UIClick ==
    /\ Quiescent
    /\ ~ui.scanBtnDisabled
    /\ starts < MaxClicks
    /\ ui' = [ui EXCEPT !.clicks = @ + 1]
    /\ starts' = starts + 1
    /\ UNCHANGED <<opt, items, zip, remote, disk, dirs, mgr, info, dl, run, flt, prs>>

\* One suspended startDownload of the renderer continues: the user declines
\* the confirmation of a structure mismatch, or the options and the button
\* are disabled and the 'start-download' request is sent.
UIProceed(confirmed) ==
    /\ Quiescent
    /\ ui.clicks > 0
    /\ ui' = IF confirmed
             THEN [ui EXCEPT !.clicks = @ - 1, !.isDownloading = TRUE,
                             !.scanBtnDisabled = TRUE, !.requests = @ + 1]
             ELSE [ui EXCEPT !.clicks = @ - 1]
    /\ UNCHANGED <<opt, items, zip, remote, disk, dirs, mgr, info, dl, run, starts, flt, prs>>

\* ---------------------------------------------------------------- behaviours
\* The files a selection names, with the directory they come from
RECURSIVE Flatten(_)
Flatten(its) ==
    IF its = <<>> THEN <<>>
    ELSE (IF its[1].type = "file" THEN <<[f |-> its[1].f, inSub |-> FALSE]>>
          ELSE [j \in 1..Len(its[1].files) |->
                   [f |-> its[1].files[j], inSub |-> TRUE]])
         \o Flatten(Tail(its))

\* The environment of a behaviour: the arguments of startDownload, the
\* server's sizes, and a target directory that holds, for every selected file,
\* nothing or a file of some size at its target path, and possibly one more
\* file (stray) directly in the target directory.
InitEnv(optSet, itemSet, zipSet, remoteSet, localSet, straySet) ==
    /\ opt \in optSet
    /\ items \in itemSet
    /\ zip \in zipSet
    /\ remote \in remoteSet
    /\ \E local \in [FileIds -> localSet], stray \in straySet :
         LET files == Range(Flatten(items))
             present == {fi \in files : local[fi.f] # Absent}
             strays == IF stray = "none" THEN {} ELSE {<<stray>>}
         IN  /\ disk = [p \in {Paths(fi).targetPath : fi \in present} \cup strays |->
                          IF p \in strays THEN 1
                          ELSE local[(CHOOSE fi \in present :
                                         Paths(fi).targetPath = p).f]]
             /\ dirs = UNION {Ancestors(Paths(fi).targetPath) : fi \in present}
                         \cup {BaseDir}

Init ==
    /\ InitEnv({o \in Options : /\ ~(o.createSubfolder /\ o.maintainFolderStructure)
                                  /\ ~(o.isThrottlingEnabled /\ o.extractAndDelete)},
               {s \in Selections : Len(Flatten(s)) = NumFiles},
               {z \in [FileIds -> BOOLEAN] : z[1]},
               [FileIds -> {MaxSize}], {Absent, 1, MaxSize}, {"none"})
    /\ InitObjects

ScanNext(r) ==
    \/ StartDownload(r)
    \/ Expand(r)
    \/ \E ok \in BOOLEAN : GetPageReply(r, ok)
    \/ ScanLoop(r)
    \/ \E ok \in BOOLEAN : HeadReply(r, ok)

RunNext(r) ==
    \/ ScanNext(r)
    \/ ScanReturn(r)
    \/ DlLoop(r)
    \/ \E ok \in BOOLEAN : GetReply(r, ok)
    \/ \E n \in 1..MaxSize : SourceData(r, n)
    \/ SourceEnd(r)
    \/ SourceError(r)
    \/ \E n \in 1..MaxSize : StreamData(r, n)
    \/ StreamEnd(r)
    \/ StreamError(r)
    \/ WriterError(r)
    \/ \E o \in run[r].orphans : OrphanEnd(r, o)
    \/ \E ok \in BOOLEAN : RenameDone(r, ok)
    \/ WriterFinish(r)
    \/ WriterClosed(r)
    \/ CleanupRenameDone(r)
    \/ CleanupDone(r)
    \/ Catch(r)
    \/ Finish(r)
    \/ ExtractFiles(r)
    \/ ExCountLoop(r)
    \/ \E ok, closed \in BOOLEAN : ExCountReply(r, ok, closed)
    \/ ExLoop(r)
    \/ \E ok \in BOOLEAN : ExOpenReply(r, ok)
    \/ ExEntry(r)
    \/ \E ok \in BOOLEAN : ExData(r, ok)
    \/ ExFinish(r)
    \/ ExUnlinkDone(r)
    \/ \E closed \in BOOLEAN : ExFinally(r, closed)
    \/ ExEnd(r)
    \/ Complete(r)

Next ==
    \/ HostRequest
    \/ Cancel
    \/ \E r \in RunIds : RunNext(r)

Spec == Init /\ [][Next]_vars

\* The scan alone, over every combination of the two folder options, every
\* remote size, every local size and a stray file in the target directory.
InitScan ==
    /\ InitEnv({o \in Options : ~o.extractAndDelete /\ ~o.extractPreviouslyDownloaded
                                  /\ ~o.isThrottlingEnabled},
               Selections, {[f \in FileIds |-> TRUE]}, [FileIds -> Sizes],
               {Absent} \cup Sizes, {"none"} \cup StrayNames)
    /\ InitObjects

NextScan ==
    \/ HostRequest
    \/ Cancel
    \/ \E r \in RunIds : ScanNext(r)

SpecScan == InitScan /\ [][NextScan]_vars

\* The renderer and the main process, for one file, without extraction and
\* throttling: start requests come from clicks on the start button.
InitUI ==
    /\ InitEnv({o \in Options : /\ ~o.extractAndDelete
                                  /\ ~o.extractPreviouslyDownloaded
                                  /\ ~o.isThrottlingEnabled
                                  /\ ~o.createSubfolder
                                  /\ ~o.maintainFolderStructure},
               {<<FileItem(1)>>}, {[f \in FileIds |-> TRUE]},
               [FileIds -> {1}], {Absent}, {"none"})
    /\ InitObjects

NextUI ==
    \/ UIClick
    \/ \E confirmed \in BOOLEAN : UIProceed(confirmed)
    \/ Cancel
    \/ \E r \in RunIds :
          \/ StartDownload(r)
          \/ Expand(r)
          \/ ScanLoop(r)
          \/ \E ok \in BOOLEAN : HeadReply(r, ok)
          \/ ScanReturn(r)
          \/ DlLoop(r)
          \/ \E ok \in BOOLEAN : GetReply(r, ok)
          \/ \E n \in 1..MaxSize : StreamData(r, n)
          \/ StreamEnd(r)
          \/ StreamError(r)
          \/ \E ok \in BOOLEAN : RenameDone(r, ok)
          \/ WriterFinish(r)
          \/ WriterClosed(r)
          \/ CleanupRenameDone(r)
          \/ CleanupDone(r)
          \/ Catch(r)
          \/ Finish(r)
          \/ Complete(r)

SpecUI == InitUI /\ [][NextUI]_vars

\* The filter wizard: applyFilters is called once with a list of parsed
\* files (different files, as the names of a directory listing are) and a
\* filter selection.
InitFilter ==
    /\ InitEnv({o \in Options : \A k \in DOMAIN o : ~o[k]},
               {<<FileItem(1)>>}, {[f \in FileIds |-> TRUE]},
               [FileIds -> {1}], {Absent}, {"none"})
    /\ mgr = [isCancelled |-> FALSE]
    /\ info = [cur |-> 0, aborted |-> [c \in CtlIds |-> FALSE]]
    /\ dl = [downloadCancelled |-> FALSE, cur |-> 0,
             aborted |-> [c \in CtlIds |-> FALSE]]
    /\ run = [r \in RunIds |-> IdleRun]
    /\ ui = [scanBtnDisabled |-> FALSE, isDownloading |-> FALSE, clicks |-> 0,
             requests |-> 0]
    /\ starts = 0
    /\ prs = ParserIdle
    /\ \E allFiles \in DistinctLists(ParsedFiles, MaxCatalog), filters \in FilterSets :
          flt = [FilterIdle EXCEPT !.allFiles = allFiles, !.filters = filters]

NextFilter == ApplyFilters

SpecFilter == InitFilter /\ [][NextFilter]_vars

\* The parser: a listing of two file names is parsed, in any order.
InitParser ==
    /\ InitEnv({o \in Options : \A k \in DOMAIN o : ~o[k]},
               {<<FileItem(1)>>}, {[f \in FileIds |-> TRUE]},
               [FileIds -> {1}], {Absent}, {"none"})
    /\ mgr = [isCancelled |-> FALSE]
    /\ info = [cur |-> 0, aborted |-> [c \in CtlIds |-> FALSE]]
    /\ dl = [downloadCancelled |-> FALSE, cur |-> 0,
             aborted |-> [c \in CtlIds |-> FALSE]]
    /\ run = [r \in RunIds |-> IdleRun]
    /\ ui = [scanBtnDisabled |-> FALSE, isDownloading |-> FALSE, clicks |-> 0,
             requests |-> 0]
    /\ starts = 0
    /\ flt = FilterIdle
    /\ \E a, b \in FileNames :
          prs = [names |-> <<a, b>>, parsed |-> <<FALSE, FALSE>>,
                 revision |-> <<0, 0>>]

NextParser == \E i \in 1..2 : ParseFilename(i)

SpecParser == InitParser /\ [][NextParser]_vars

\* Scan and transfer without extraction, with and without throttling, under
\* fairness: a callback that is ready is run by the event loop, a request or
\* a stream that is waited for delivers an event (a reply, a chunk, its end
\* or an error) if it can deliver one.  Nothing is assumed of the user.
InitFair ==
    /\ InitEnv({o \in Options : /\ ~o.createSubfolder /\ ~o.maintainFolderStructure
                                  /\ ~o.extractAndDelete
                                  /\ ~o.extractPreviouslyDownloaded},
               {s \in Selections : Len(Flatten(s)) = NumFiles},
               {[f \in FileIds |-> TRUE]},
               [FileIds -> {MaxSize}], {Absent, 1}, {"none"})
    /\ InitObjects

TransferNext(r) ==
    \/ ScanNext(r)
    \/ ScanReturn(r)
    \/ DlLoop(r)
    \/ \E ok \in BOOLEAN : GetReply(r, ok)
    \/ \E n \in 1..MaxSize : SourceData(r, n)
    \/ SourceEnd(r)
    \/ SourceError(r)
    \/ \E n \in 1..MaxSize : StreamData(r, n)
    \/ StreamEnd(r)
    \/ StreamError(r)
    \/ WriterError(r)
    \/ \E o \in run[r].orphans : OrphanEnd(r, o)
    \/ \E ok \in BOOLEAN : RenameDone(r, ok)
    \/ WriterFinish(r)
    \/ WriterClosed(r)
    \/ CleanupRenameDone(r)
    \/ CleanupDone(r)
    \/ Catch(r)
    \/ Finish(r)
    \/ Complete(r)

NextFair ==
    \/ HostRequest
    \/ Cancel
    \/ \E r \in RunIds : TransferNext(r)

\* The steps of a run that the event loop, the server and the file system owe
\* to it: every step but the faults nothing requires to happen (an error of
\* the writer, an error of a response whose request was not aborted).
FairStep(r) ==
    \/ ScanNext(r)
    \/ ScanReturn(r)
    \/ DlLoop(r)
    \/ \E ok \in BOOLEAN : GetReply(r, ok)
    \/ \E n \in 1..MaxSize : SourceData(r, n)
    \/ SourceEnd(r)
    \/ dl.aborted[run[r].getSignal] /\ SourceError(r)
    \/ \E n \in 1..MaxSize : StreamData(r, n)
    \/ StreamEnd(r)
    \/ dl.aborted[run[r].getSignal] /\ StreamError(r)
    \/ \E o \in run[r].orphans : OrphanEnd(r, o)
    \/ \E ok \in BOOLEAN : RenameDone(r, ok)
    \/ WriterFinish(r)
    \/ WriterClosed(r)
    \/ CleanupRenameDone(r)
    \/ CleanupDone(r)
    \/ Catch(r)
    \/ Finish(r)
    \/ Complete(r)

SpecFair ==
    InitFair /\ [][NextFair]_vars /\ \A r \in RunIds : WF_vars(FairStep(r))

\* ------------------------------------------------------------------ properties
Ended(r) == run[r].pc \in {"done", "rejected"}

\* the 'download-complete' event of a run that has sent one
Summary(r) == run[r].completeEvents[1]

\* the files the scan of run r has classified so far
Classified(r) ==
    Range(run[r].scanFilesToDownload) \cup Range(run[r].scanSkippedFiles)

\* C1: a run never sends two 'download-complete' events, and every run that
\* has ended, however it ended, has sent exactly one.
C1_ExactlyOneCompletionEvent ==
    \A r \in RunIds :
        /\ Len(run[r].completeEvents) <= 1
        /\ Ended(r) => Len(run[r].completeEvents) = 1

\* C2: at most one run is active (scanning, transferring or extracting) at
\* any time.
C2_AtMostOneActiveRun ==
    Cardinality({r \in RunIds : ~Free(r)}) <= 1

\* C3: when cancellation was first requested during the transfer stage,
\* extractFiles is never called and the summary, once sent, has
\* wasCancelled = TRUE.
C3_TransferCancelSkipsExtraction ==
    \A r \in RunIds :
        run[r].cancelStage = "transfer" =>
            /\ run[r].extractionStarted = 0
            /\ run[r].pc # "extractFiles"
            /\ run[r].stage # "extract"
            /\ run[r].pc = "done" =>
                  /\ Len(run[r].completeEvents) = 1
                  /\ Summary(r).wasCancelled

\* C3 witness: a run cancelled during the transfer, after a file of the batch
\* was downloaded completely and with extraction requested, has ended.
C3_Witness ==
    \E r \in RunIds :
        /\ run[r].pc = "done"
        /\ run[r].cancelStage = "transfer"
        /\ Len(run[r].dlDownloadedFiles) > 0
        /\ opt.extractAndDelete
        /\ Summary(r).wasCancelled

ScanErrors == {"CANCELLED_SCAN", "CANCELLED_DURING_SCAN", "Failed to fetch directory"}

\* C4: when the scan failed or was cancelled, the run never enters the
\* transfer or the extraction: no GET is issued, nothing is downloaded and
\* extractFiles is not called.
C4_ScanFailureGoesToCompletion ==
    \A r \in RunIds :
        (run[r].e \in ScanErrors \/ run[r].cancelStage = "scan") =>
            /\ run[r].gets = 0
            /\ run[r].downloadedFiles = <<>>
            /\ run[r].dlDownloadedFiles = <<>>
            /\ run[r].extractionStarted = 0
            /\ run[r].stage \in {"scan", "done"}
            /\ run[r].pc \in {"getPage", "expand", "scanLoop", "head", "scanReturn",
                              "catch", "finish", "complete", "done"}

\* C4 witness: a run cancelled during the scan, after the scan had queued a
\* file for download, has sent its summary.
C4_Witness ==
    \E r \in RunIds :
        /\ run[r].pc = "done"
        /\ run[r].cancelStage = "scan"
        /\ Len(run[r].scanFilesToDownload) > 0
        /\ Len(run[r].completeEvents) = 1

\* C5: a run that ended with an error that is no cancellation, and during
\* which no cancellation was requested, reports wasCancelled = FALSE and a
\* failure summary.
C5_UnexpectedErrorIsNotCancellation ==
    \A r \in RunIds :
        (/\ run[r].pc = "done"
         /\ run[r].cancelStage = "none"
         /\ run[r].e \notin CancelledMessages \cup {"none"}) =>
            /\ ~Summary(r).wasCancelled
            /\ run[r].logged = "Error: "

\* C6: when cancellation was requested while the run was scanning,
\* transferring or extracting, its summary has wasCancelled = TRUE.
C6_CancelInAnyStageIsReported ==
    \A r \in RunIds :
        (run[r].pc = "done" /\ run[r].cancelStage \in {"scan", "transfer", "extract"}) =>
            Summary(r).wasCancelled

\* C7 as stated: extractFiles is called only if extraction was requested, the
\* run was not cancelled and at least one archive (.zip) is available.
C7_ExtractionNeedsAnArchive ==
    \A r \in RunIds :
        run[r].pc = "extractFiles" =>
            /\ opt.extractAndDelete
            /\ ~run[r].wasCancelled
            /\ \E t \in Range(run[r].filesForExtraction) : EndsWithZip(FileName(t.f))

\* C7 amended: extractFiles is called only if extraction was requested, the
\* run was not cancelled and at least one file, archive or not, is available;
\* a file downloaded by an earlier run is among the files only when the
\* extract-previously-downloaded option is set, the file exists on disk and
\* its name is not in the run's list of skipped files.
C7_ExtractionNeedsAFile ==
    \A r \in RunIds :
        run[r].pc = "extractFiles" =>
            /\ opt.extractAndDelete
            /\ ~run[r].wasCancelled
            /\ ~mgr.isCancelled
            /\ Len(run[r].filesForExtraction) > 0
            /\ \A t \in Range(run[r].filesForExtraction) :
                  \/ t \in Range(run[r].downloadedFiles)
                  \/ /\ opt.extractPreviouslyDownloaded
                     /\ t.kind = "downloaded"
                     /\ t.path \in DOMAIN disk
                     /\ FileName(t.f) \notin Range(run[r].allSkippedFiles)

\* C7 witness: extractFiles is about to be called with a file downloaded in
\* this run and a file downloaded earlier.
C7_Witness ==
    \E r \in RunIds :
        /\ run[r].pc = "extractFiles"
        /\ Len(run[r].downloadedFiles) > 0
        /\ \E t \in Range(run[r].filesForExtraction) : t.kind = "downloaded"

\* C8 as stated: for every remote size R >= 0, a local file of size R is
\* skipped as already downloaded and a smaller local file is resumed from
\* its size.
C8_SizeComparisonAnyRemoteSize ==
    \A r \in RunIds : \A t \in Classified(r) :
        LET p == Paths(t).targetPath
            R == remote[t.f]
        IN  (t.kind \in {"downloaded", "toDownload"} /\ p \in DOMAIN disk) =>
               /\ disk[p] = R =>
                     /\ t.kind = "downloaded" /\ t.skip
                     /\ t \in Range(run[r].scanSkippedFiles)
               /\ disk[p] < R =>
                     /\ t.kind = "toDownload" /\ ~t.skip
                     /\ t.downloadedBytes = disk[p]
                     /\ t \in Range(run[r].scanFilesToDownload)

\* C8 amended: the same for every remote size R > 0 (with R = 0 a local file
\* is never skipped or resumed: the file is queued for a fresh download).
C8_SizeComparisonPositiveRemoteSize ==
    \A r \in RunIds : \A t \in Classified(r) :
        LET p == Paths(t).targetPath
            R == remote[t.f]
        IN  (t.kind \in {"downloaded", "toDownload"} /\ p \in DOMAIN disk) =>
               /\ (R > 0 /\ disk[p] = R) =>
                     /\ t.kind = "downloaded" /\ t.skip
                     /\ t \in Range(run[r].scanSkippedFiles)
               /\ (R > 0 /\ disk[p] < R) =>
                     /\ t.kind = "toDownload" /\ ~t.skip
                     /\ t.downloadedBytes = disk[p]
                     /\ t \in Range(run[r].scanFilesToDownload)
               /\ R = 0 =>
                     /\ t.kind = "toDownload" /\ ~t.skip
                     /\ t.downloadedBytes = Absent

\* C8 witness: one scan has skipped a file whose local size equals the
\* remote size and queued another for resumption from a smaller local size.
C8_Witness ==
    \E r \in RunIds : \E t1, t2 \in Classified(r) :
        /\ t1.kind = "downloaded" /\ disk[Paths(t1).targetPath] = remote[t1.f]
        /\ t2.kind = "toDownload" /\ t2.downloadedBytes >= 1
        /\ t2.downloadedBytes < remote[t2.f]

\* HEAD of the classified file t succeeded: its size is known
HeadSucceeded(t) == t.size # Absent

FreshDownload(r, t) ==
    /\ t.kind = "toDownload" /\ ~t.skip /\ t.downloadedBytes = Absent
    /\ t \in Range(run[r].scanFilesToDownload)

\* C9 as stated: a file without a local file at its target path, whose HEAD
\* succeeds, is queued as a fresh download, whatever the two folder options
\* are and whatever else the target directory holds.
C9_MissingFileIsFresh ==
    \A r \in RunIds : \A t \in Classified(r) :
        (HeadSucceeded(t) /\ Paths(t).targetPath \notin DOMAIN disk) =>
            FreshDownload(r, t)

\* the directory d does not exist, or has no entry with a name other than n
\* (compared without regard to case)
NothingElseIn(d, n) ==
    d \in dirs => \A m \in readdir(d) : toLowerCase(m) = toLowerCase(n)

\* C9 amended: such a file is queued as a fresh download provided its
\* extraction directory does not exist or holds no entry named otherwise
\* than the file itself; else it is skipped as already extracted.
C9_MissingFileIsFreshUnlessExtracted ==
    \A r \in RunIds : \A t \in Classified(r) :
        (HeadSucceeded(t) /\ Paths(t).targetPath \notin DOMAIN disk) =>
            IF NothingElseIn(Paths(t).extractPath, FileName(t.f))
            THEN FreshDownload(r, t)
            ELSE t.kind = "extracted" /\ t.skip

\* C9 witness: with a stray file in the target directory and both folder
\* options set, a file without a local file has been queued as fresh.
C9_Witness ==
    \E r \in RunIds : \E t \in Classified(r) :
        /\ opt.createSubfolder /\ opt.maintainFolderStructure
        /\ \E n \in StrayNames : <<n>> \in DOMAIN disk
        /\ Paths(t).targetPath \notin DOMAIN disk
        /\ FreshDownload(r, t)

C11_FinalFileOnlyAfterStreamEnd ==
    \A r \in RunIds : \A t \in Range(run[r].dlDownloadedFiles) :
        t.f \in run[r].streamEnded

\* labels at which the transfer of the current file is still going on
InFileTransfer == {"stream", "rename", "cleanup", "cleanupFinished", "cleanupUnlink"}

\* C12: when cancellation was requested while a file's stream was open, the
\* transfer of that file ends with CANCELLED_MID_FILE, which carries the
\* path of the .part file, and the .part file is gone when it is raised.
C12_MidFileCancelRaisesCondition ==
    \A r \in RunIds :
        (run[r].cancelPc = "stream" /\ run[r].pc \notin InFileTransfer) =>
            /\ run[r].e = "CANCELLED_MID_FILE"
            /\ run[r].ePartialFile # <<>>
            /\ run[r].pc = "catch" => run[r].ePartialFile \notin DOMAIN disk

\* the tasks of run r whose transfer failed
FailedTasks(r) ==
    {i \in 1..Len(run[r].filesToDownload) :
        FileName(run[r].filesToDownload[i].f) \in Range(run[r].dlSkippedFiles)}

\* the tasks of run r whose file was renamed to its final path
CompletedTasks(r) ==
    {i \in 1..Len(run[r].filesToDownload) :
        \E t \in Range(run[r].dlDownloadedFiles) :
            t.f = run[r].filesToDownload[i].f}

ResumeOffset(t) == IF t.downloadedBytes = Absent THEN 0 ELSE t.downloadedBytes

\* the sizes of the failed tasks among the first i tasks
RECURSIVE FailedSize(_, _)
FailedSize(r, i) ==
    IF i = 0 THEN 0
    ELSE FailedSize(r, i - 1) +
         (IF i \in FailedTasks(r) THEN run[r].filesToDownload[i].size ELSE 0)

\* what the first i tasks have added to the bytes the scan counted as
\* present: the body of a completed file, minus the resume offset of a
\* failed one
RECURSIVE TransferredBytes(_, _)
TransferredBytes(r, i) ==
    IF i = 0 THEN 0
    ELSE LET t == run[r].filesToDownload[i] IN
         TransferredBytes(r, i - 1) +
         (IF i \in CompletedTasks(r) THEN BodyLength(t.f, ResumeOffset(t))
          ELSE IF i \in FailedTasks(r) THEN 0 - ResumeOffset(t)
          ELSE 0)

\* a stream that failed without a cancellation request and has nothing left
\* to deliver, while the transfer still waits for it
UnhandledStreamFailure(r) ==
    /\ run[r].pc = "stream"
    /\ run[r].source = "errored"
    /\ run[r].buffered = 0
    /\ run[r].cancelStage = "none"

\* C13 (totals): in a run nobody cancelled, between two files the running
\* total holds no byte of a failed file and the failed bytes are the full
\* sizes of the failed files.
C13_TotalsExcludeFailedFiles ==
    \A r \in RunIds :
        (run[r].pc = "dlLoop" /\ run[r].cancelStage = "none") =>
            LET n == Len(run[r].filesToDownload) IN
            /\ run[r].totalBytesFailed = FailedSize(r, n)
            /\ run[r].totalDownloaded =
                   run[r].scanSkippedSize + TransferredBytes(r, n)

\* C13 (continuation): a run nobody cancelled in which a file failed has
\* issued a GET for every task that is not skipped when the transfer stage
\* ends, and its summary is not a cancellation and lists the failed file.
C13_FailureDoesNotStopTheBatch ==
    \A r \in RunIds :
        (run[r].cancelStage = "none" /\ FailedTasks(r) # {}) =>
            /\ run[r].pc = "finish" =>
                   /\ run[r].e = "none"
                   /\ run[r].gets = Cardinality({i \in 1..Len(run[r].filesToDownload) :
                                                    ~run[r].filesToDownload[i].skip})
            /\ Len(run[r].completeEvents) = 1 =>
                   /\ ~Summary(r).wasCancelled
                   /\ \A i \in FailedTasks(r) :
                          FileName(run[r].filesToDownload[i].f)
                              \in Range(Summary(r).skippedFiles)

\* C13: a GET or a stream that fails for a reason other than cancellation
\* puts the file into skippedFiles at once (the transfer never keeps waiting
\* for a failed stream), the later tasks are attempted, the run is not
\* reported as cancelled and the totals exclude the failed file.
C13_FailedFileIsSkippedAndBatchContinues ==
    /\ \A r \in RunIds : ~UnhandledStreamFailure(r)
    /\ C13_TotalsExcludeFailedFiles
    /\ C13_FailureDoesNotStopTheBatch

\* the files of run r whose response stream is open
OpenStreams(r) ==
    {o.f : o \in run[r].orphans} \cup
    (IF run[r].pc = "stream" /\ run[r].source = "open" THEN {CurFile(r).f} ELSE {})

\* the number of archive entries run r is extracting
OpenExtractions(r) == IF run[r].pc \in {"exWrite", "exFinish"} THEN 1 ELSE 0

\* C14: a run has at most one response stream or entry extraction open, and
\* while a GET is in flight every earlier task of the batch is skipped,
\* completed or failed.
C14_OneStreamAtATimeInScanOrder ==
    \A r \in RunIds :
        /\ Cardinality(OpenStreams(r)) + OpenExtractions(r) <= 1
        /\ run[r].pc = "get" =>
               \A i \in 1..(run[r].fileIndex - 1) :
                   \/ run[r].filesToDownload[i].skip
                   \/ i \in CompletedTasks(r)
                   \/ i \in FailedTasks(r)

\* extractFiles has returned
ExtractionReturned(r) ==
    run[r].extractionEnded = 1 /\ run[r].pc \in {"complete", "done"}

\* cancellation was first requested while an entry of an archive was being
\* written or the next entry was being read
CancelledInsideArchive(r) == run[r].cancelPc \in {"exWrite", "exFinish"}

\* the paths the entries of the i-th archive of run r are written to
OutputsOf(r, i) ==
    {EntryPath(run[r].archiveFiles[i], j) :
        j \in 1..EntryCount(run[r].archiveFiles[i].f)}

C17_PartFileIsResumeMarker ==
    \A r \in RunIds : \A t \in Classified(r) :
        LET partPath == PartPath(Paths(t).targetPath) IN
        (/\ HeadSucceeded(t)
         /\ partPath \in DOMAIN disk
         /\ disk[partPath] < remote[t.f]) =>
            /\ t.kind = "toDownload" /\ ~t.skip
            /\ t.downloadedBytes = disk[partPath]
            /\ t \in Range(run[r].scanFilesToDownload)

\* ------------------------------------------------------- filter properties
\* applyFilters has run with revision mode 'highest'
HighestRevisionApplied == flt.done /\ flt.filters.rev_mode = "highest"

\* applyFilters has run with dedupe mode 'priority'
PriorityDedupeApplied == flt.done /\ flt.filters.dedupe_mode = "priority"

\* the files of list with the base name of f
SameGame(list, f) == {g \in Range(list) : g.base_name = f.base_name}

\* C18: with revision mode 'highest' the revision stage keeps a file of its
\* input if and only if no file of the same base name, whatever its tags,
\* has a higher revision; it adds and repeats nothing.
C18_HighestRevisionPerBaseName ==
    HighestRevisionApplied =>
        /\ \A f \in Range(flt.listAfterStrings) :
              f \in Range(flt.listAfterRev) <=>
                  \A g \in SameGame(flt.listAfterStrings, f) : g.revision <= f.revision
        /\ Range(flt.listAfterRev) \subseteq Range(flt.listAfterStrings)
        /\ Cardinality(Range(flt.listAfterRev)) = Len(flt.listAfterRev)

\* two files of one game with different tags tie for the highest revision
\* and are kept, a third file of the game is dropped
C18_Witness ==
    /\ HighestRevisionApplied
    /\ \E f1, f2 \in Range(flt.listAfterRev) :
          /\ f1.base_name = f2.base_name /\ f1.tags # f2.tags
          /\ f1.revision = f2.revision
          /\ \E f3 \in SameGame(flt.listAfterStrings, f1) :
                f3 \notin Range(flt.listAfterRev)

\* priorityList.length - index of the tag in priorityList, 0 for a tag that
\* is not in the list
TagWeight(tag, priorityList) ==
    IF tag \in Range(priorityList)
    THEN Len(priorityList) -
         ((CHOOSE k \in 1..Len(priorityList) : priorityList[k] = tag) - 1)
    ELSE 0

\* the sum of the weights of a set of tags
RECURSIVE WeightOf(_, _)
WeightOf(tags, priorityList) ==
    IF tags = {} THEN 0
    ELSE LET t == CHOOSE x \in tags : TRUE IN
         TagWeight(t, priorityList) + WeightOf(tags \ {t}, priorityList)

PriorityScore(f) == WeightOf(Range(f.tags), flt.filters.priority_list)

\* the files of the game of f, in the input of the dedupe stage, with the
\* highest score of the game
TopScorers(f) ==
    {g \in SameGame(flt.listAfterRev, f) :
        \A h \in SameGame(flt.listAfterRev, f) : PriorityScore(h) <= PriorityScore(g)}

\* position of the first occurrence of f in list
IndexIn(list, f) == CHOOSE i \in 1..Len(list) :
                        list[i] = f /\ \A j \in 1..(i - 1) : list[j] # f

\* C19 as stated: with dedupe mode 'priority', of a game none of whose top
\* scorers has a Disc/Cart/Side tag, every top scorer is in the output.
C19_AllTopScorersKept ==
    PriorityDedupeApplied =>
        \A f \in Range(flt.listAfterRev) :
            (\A g \in TopScorers(f) : ~hasDiscTag(g)) =>
                TopScorers(f) \subseteq Range(flt.finalList)

\* C19 amended: of such a game exactly one file is in the output, the top
\* scorer that comes first in the input.
C19_FirstTopScorerKept ==
    PriorityDedupeApplied =>
        \A f \in Range(flt.listAfterRev) :
            (\A g \in TopScorers(f) : ~hasDiscTag(g)) =>
                \E best \in TopScorers(f) :
                    /\ \A g \in TopScorers(f) :
                          IndexIn(flt.listAfterRev, best) <= IndexIn(flt.listAfterRev, g)
                    /\ SameGame(flt.finalList, f) = {best}

\* a game with two top scorers without disc tags: one of them is in the
\* output, the other is not
C19_Witness ==
    /\ PriorityDedupeApplied
    /\ \E f \in Range(flt.listAfterRev) :
          /\ Cardinality(TopScorers(f)) >= 2
          /\ \A g \in TopScorers(f) : ~hasDiscTag(g)
          /\ \E g \in TopScorers(f) : g \notin Range(flt.finalList)
          /\ \E g \in TopScorers(f) : g \in Range(flt.finalList)

\* the files A (USA), A (Europe), A (Japan)
ExampleFiles ==
    {[base_name |-> "A", tags |-> <<t>>, revision |-> 0] : t \in RegionTags}

ExampleApplied ==
    /\ PriorityDedupeApplied
    /\ flt.filters.rev_mode = "all"
    /\ flt.filters.priority_list = <<"USA", "Europe">>
    /\ Range(flt.allFiles) = ExampleFiles

\* C20: with dedupe mode 'priority' every file of the output is a top
\* scorer of its game, and of A (USA), A (Europe), A (Japan) with the
\* priority list USA, Europe the output is A (USA) alone.
C20_KeptFilesAreTopScorers ==
    /\ PriorityDedupeApplied =>
          \A f \in Range(flt.finalList) :
              /\ f \in Range(flt.listAfterRev)
              /\ f \in TopScorers(f)
    /\ ExampleApplied =>
          flt.finalList = <<[base_name |-> "A", tags |-> <<"USA">>, revision |-> 0]>>

\* the example, with A (Europe) first in the input
C20_Witness ==
    /\ ExampleApplied
    /\ flt.allFiles[1].tags = <<"Europe">>
    /\ Len(flt.finalList) = 1
    /\ flt.finalList[1].tags = <<"USA">>

\* the top scorers of the game of f that carry a Disc, Cart or Side tag
DiscTopScorers(f) == {g \in TopScorers(f) : \E t \in Range(g.tags) : IsDiscTag(t)}

\* C21: with dedupe mode 'priority', of a game with a top scorer that
\* carries a Disc, Cart or Side tag the output holds exactly the top scorers
\* with such a tag, each once.
C21_DiscTopScorersAllKept ==
    PriorityDedupeApplied =>
        \A f \in Range(flt.listAfterRev) :
            DiscTopScorers(f) # {} =>
                /\ SameGame(flt.finalList, f) = DiscTopScorers(f)
                /\ \A i, j \in 1..Len(flt.finalList) :
                      flt.finalList[i] = flt.finalList[j] => i = j

\* Disc 1 and Disc 2 of a game tie for the top score with a file without
\* disc tag: the two discs are in the output, the third file is not
C21_Witness ==
    /\ PriorityDedupeApplied
    /\ \E f1, f2, f3 \in Range(flt.listAfterRev) :
          /\ "Disc 1" \in Range(f1.tags) /\ "Disc 2" \in Range(f2.tags)
          /\ {f1, f2, f3} \subseteq TopScorers(f1)
          /\ ~hasDiscTag(f3)
          /\ f1 \in Range(flt.finalList) /\ f2 \in Range(flt.finalList)
          /\ f3 \notin Range(flt.finalList)

\* applyFilters has run with nothing selected: no tags, no strings, every
\* revision, no deduplication
NoFilterApplied ==
    /\ flt.done
    /\ flt.filters.include_tags = {} /\ flt.filters.exclude_tags = {}
    /\ flt.filters.include_strings = <<>> /\ flt.filters.exclude_strings = <<>>
    /\ flt.filters.rev_mode = "all" /\ flt.filters.dedupe_mode = "all"

\* C22: with nothing selected applyFilters returns its input list, the same
\* files in the same order.
C22_NoFilterReturnsInput ==
    NoFilterApplied => flt.finalList = flt.allFiles

\* the list returned is an input in which the files of a game are not
\* adjacent and differ in revision
C22_Witness ==
    /\ NoFilterApplied
    /\ Len(flt.finalList) = 3
    /\ flt.finalList[1].base_name = "A" /\ flt.finalList[2].base_name = "B"
    /\ flt.finalList[3].base_name = "A"
    /\ flt.finalList[1].revision < flt.finalList[3].revision

\* ------------------------------------------------------- parser properties
BothParsed == Len(prs.names) = 2 /\ prs.parsed[1] /\ prs.parsed[2]

Versioned(name) == name.kind \in {"v", "rev"}

\* the components X, Y, Z of a version marker, 0 for a missing one
Component(name, k) == IF k <= Len(name.parts) THEN name.parts[k] ELSE 0

\* (X, Y, Z) of a precedes (X, Y, Z) of b in the lexicographic order
LexLess(a, b) ==
    \/ Component(a, 1) < Component(b, 1)
    \/ Component(a, 1) = Component(b, 1) /\ Component(a, 2) < Component(b, 2)
    \/ /\ Component(a, 1) = Component(b, 1) /\ Component(a, 2) = Component(b, 2)
       /\ Component(a, 3) < Component(b, 3)

\* C23: the revision parsed from a name with a version or revision marker is
\* greater than 0, and of two such names the one with the lexicographically
\* smaller components has the smaller revision.
C23_VersionRevisionPositiveAndIncreasing ==
    BothParsed =>
        \A i, j \in 1..2 :
            Versioned(prs.names[i]) =>
                /\ prs.revision[i] > 0
                /\ (Versioned(prs.names[j]) /\ LexLess(prs.names[i], prs.names[j]))
                       => prs.revision[i] < prs.revision[j]

\* The release class of a name: prototypes, alphas, betas, unmarked names and
\* versioned releases, in this order.
ReleaseClass(name) ==
    IF name.kind \in {"proto", "protoDate"} THEN 1
    ELSE IF name.kind \in {"alpha", "alphaN"} THEN 2
    ELSE IF name.kind \in {"beta", "betaN"} THEN 3
    ELSE IF name.kind = "none" THEN 4
    ELSE 5

\* C24: of two parsed names, the one of the lower release class (Proto, then
\* Alpha, then Beta, then unmarked, then versioned) has the smaller revision,
\* and an unmarked name has revision 0.
C24_RevisionsOrderedByReleaseClass ==
    BothParsed =>
        \A i, j \in 1..2 :
            /\ ReleaseClass(prs.names[i]) = 4 => prs.revision[i] = 0
            /\ ReleaseClass(prs.names[i]) < ReleaseClass(prs.names[j])
                   => prs.revision[i] < prs.revision[j]

\* ------------------------------------------------------ resumed transfers
\* The files a run has put at their final path after their stream ended
CompletedTransfers(r) ==
    {d \in Range(run[r].dlDownloadedFiles) : d.f \in run[r].streamEnded}

\* C25: a file whose transfer was resumed (downloadedBytes = L > 0) and whose
\* stream ended has, while it is at its final path, exactly the remote size.
C25_ResumedFileHasRemoteSize ==
    \A r \in RunIds :
        \A d \in CompletedTransfers(r) :
            (ResumeOffset(d) > 0 /\ d.path \in DOMAIN disk)
                => disk[d.path] = remote[d.f]

\* --------------------------------------------------- extraction and cancel
\* C26: for every archive of an extraction run, at every moment, the archive
\* is on disk or every file written from it is on disk.
C26_ArchiveOrAllOutputsExist ==
    \A r \in RunIds : \A i \in 1..Len(run[r].archiveFiles) :
        \/ run[r].archiveFiles[i].path \in DOMAIN disk
        \/ OutputsOf(r, i) \subseteq DOMAIN disk

\* ---------------------------------------------------------------- progress
\* C27: under fairness every run that has started ends with its summary sent.
C27_EveryRunCompletes ==
    \A r \in RunIds :
        (run[r].pc # "idle") ~> (run[r].pc = "done" /\ Len(run[r].completeEvents) = 1)

\* ------------------------------------------------ cancellation between files
\* the run is at the head of the scan loop or of the transfer loop, a file
\* is left, and cancellation has been requested
AtFileBoundaryCancelled(r) ==
    \/ /\ run[r].pc = "scanLoop" /\ run[r].i <= Len(run[r].allFilesToProcess)
       /\ infoIsCancelled
    \/ /\ run[r].pc = "dlLoop" /\ run[r].fileIndex <= Len(run[r].filesToDownload)
       /\ dlIsCancelled

\* the condition a stage raises when it sees the cancellation between files
BoundaryCondition(r) ==
    IF run[r].pc = "scanLoop" THEN "CANCELLED_SCAN" ELSE "CANCELLED_BETWEEN_FILES"

\* the run has left a stage on such a condition and has not ended
StoppedAtFileBoundary(r) ==
    /\ run[r].e \in {"CANCELLED_SCAN", "CANCELLED_BETWEEN_FILES"}
    /\ ~Free(r)

\* C28: the step a run takes at a file boundary once cancellation was
\* requested raises the stage's cancelled condition, and from then on the run
\* sends no HEAD and no GET, changes no file and no directory, and goes
\* through the catch to its summary without extracting.
C28_BoundaryCancelStopsStage ==
    [][\A r \in RunIds :
          /\ (AtFileBoundaryCancelled(r) /\ run'[r] # run[r]) =>
                 /\ run'[r].pc = "catch"
                 /\ run'[r].e = BoundaryCondition(r)
                 /\ run'[r].heads = run[r].heads /\ run'[r].gets = run[r].gets
                 /\ disk' = disk /\ dirs' = dirs
          /\ StoppedAtFileBoundary(r) =>
                 /\ run'[r].heads = run[r].heads /\ run'[r].gets = run[r].gets
                 /\ disk' = disk /\ dirs' = dirs
                 /\ run'[r].e = run[r].e
                 /\ run'[r].pc \in {"catch", "finish", "complete", "done"}
                 /\ run'[r].extractionStarted = 0]_vars

\* a run cancelled between two files of the transfer has ended: the first
\* file was downloaded, the second was never asked for and is not on disk
C28_Witness ==
    \E r \in RunIds :
        /\ run[r].pc = "done"
        /\ run[r].e = "CANCELLED_BETWEEN_FILES"
        /\ run[r].fileIndex = 2 /\ Len(run[r].filesToDownload) = 2
        /\ Len(run[r].dlDownloadedFiles) = 1
        /\ run[r].gets = 1
        /\ Paths(run[r].filesToDownload[2]).targetPath \notin DOMAIN disk

\* ------------------------------------------- cancellation inside a transfer
\* the GET of the current file is pending or its stream is open
RequestOrStreamOpen(r) == run[r].pc \in {"get", "stream"}

\* C29: the step that ends the wait for a GET or for a stream after
\* cancellation was requested (a failure of the writer aside) adds no name to
\* skippedFiles and no size to the failed bytes, and raises a cancelled
\* condition or starts the cleanup that raises it.
C29_CancelIsNoFileFailure ==
    [][\A r \in RunIds :
          (/\ dlIsCancelled /\ RequestOrStreamOpen(r)
           /\ ~RequestOrStreamOpen(r)'
           /\ ~WriterError(r)) =>
              /\ run'[r].dlSkippedFiles = run[r].dlSkippedFiles
              /\ run'[r].totalBytesFailed = run[r].totalBytesFailed
              /\ \/ run'[r].pc = "cleanup"
                 \/ run'[r].pc = "catch" /\ StartsWithCancelled(run'[r].e)
                 \/ run'[r].pc = "rename"]_vars

\* ------------------------------------------------------ errors in the summary
\* the files of run r whose HEAD request failed in the scan (outside the
\* already-extracted branch) or whose transfer failed
FailedFiles(r) ==
    run[r].headFailed \cup {run[r].filesToDownload[i].f : i \in FailedTasks(r)}

\* C30: the summary of a run that completed without cancellation lists every
\* file whose HEAD request failed and every file whose transfer failed.
C30_EveryFailureIsInSummary ==
    \A r \in RunIds :
        (/\ run[r].pc = "done" /\ Len(run[r].completeEvents) = 1
         /\ ~Summary(r).wasCancelled) =>
            \A f \in FailedFiles(r) :
                FileName(f) \in Range(Summary(r).skippedFiles)

\* ------------------------------------------------------- extraction signals
\* C31: a run that has sent its completion summary has sent as many
\* 'extraction-ended' signals as 'extraction-started' signals, and never
\* more than one of each.
C31_ExtractionStartedIsEnded ==
    \A r \in RunIds :
        /\ run[r].extractionEnded <= run[r].extractionStarted
        /\ run[r].extractionStarted <= 1
        /\ run[r].pc = "done" => run[r].extractionEnded = run[r].extractionStarted

\* ------------------------------------------------------------ progress events
\* C32: every 'download-file-progress' event carries a file index between 1
\* and the number of files it announces.
C32_FileIndexInRange ==
    \A r \in RunIds : \A i \in 1..Len(run[r].fileProgress) :
        LET ev == run[r].fileProgress[i] IN
        1 <= ev.currentFileIndex /\ ev.currentFileIndex <= ev.totalFilesToDownload

C34_FileProgressStrictlyIncreasing ==
    \A r \in RunIds : \A i \in 1..(Len(run[r].fileProgress) - 1) :
        run[r].fileProgress[i].current < run[r].fileProgress[i + 1].current

\* ------------------------------------------------------------- scan totals
\* the files the scan has classified, to download and skipped alike
ScannedTasks(r) == run[r].scanFilesToDownload \o run[r].scanSkippedFiles

\* a file queued for download that has a shorter local file to resume from
Resumable(t) ==
    /\ t.kind = "toDownload"
    /\ Paths(t).targetPath \in DOMAIN disk
    /\ remote[t.f] > 0 /\ disk[Paths(t).targetPath] < remote[t.f]

\* sum of the remote sizes of the tasks whose HEAD succeeded
RECURSIVE RemoteSizeSum(_)
RemoteSizeSum(tasks) ==
    IF tasks = <<>> THEN 0
    ELSE (IF HeadSucceeded(Head(tasks)) THEN remote[Head(tasks).f] ELSE 0)
         + RemoteSizeSum(Tail(tasks))

\* sum of the bytes that need no transfer: the remote size of a skipped file,
\* the local size of a resumable one
RECURSIVE PresentSizeSum(_)
PresentSizeSum(tasks) ==
    IF tasks = <<>> THEN 0
    ELSE LET t == Head(tasks) IN
         (IF t.skip /\ HeadSucceeded(t) THEN remote[t.f]
          ELSE IF Resumable(t) THEN disk[Paths(t).targetPath]
          ELSE 0) + PresentSizeSum(Tail(tasks))

\* C35: when the scan has completed, totalSize is the sum of the remote sizes
\* of the files whose HEAD succeeded, skippedSize is the sum of the remote
\* sizes of the skipped files and of the local sizes of the resumable files,
\* and skippedSize <= totalSize.
C35_ScanTotals ==
    \A r \in RunIds :
        run[r].pc = "scanReturn" =>
            /\ run[r].scanTotalSize = RemoteSizeSum(ScannedTasks(r))
            /\ run[r].scanSkippedSize = PresentSizeSum(ScannedTasks(r))
            /\ run[r].scanSkippedSize <= run[r].scanTotalSize

\* a scan has completed with one file skipped as downloaded and another one
\* queued for resumption
C35_Witness ==
    \E r \in RunIds :
        /\ run[r].pc = "scanReturn"
        /\ \E t \in Range(run[r].scanSkippedFiles) : t.kind = "downloaded"
        /\ \E t \in Range(run[r].scanFilesToDownload) :
              Resumable(t) /\ disk[Paths(t).targetPath] > 0
        /\ run[r].scanSkippedSize < run[r].scanTotalSize

\* ---------------------------------------------------------------- throttling
\* the response of the current file has failed and every chunk it delivered
\* before has been handled
ResponseFailedAndDrained(r) ==
    /\ run[r].pc = "stream"
    /\ run[r].source = "errored"
    /\ run[r].buffered = 0

\* one of the handlers the transfer has attached to its stream can run
StreamHandlerReady(r) ==
    ENABLED (\/ \E n \in 1..MaxSize : StreamData(r, n)
             \/ StreamEnd(r)
             \/ StreamError(r))

\* C36: with throttling as without it, a failure of the response reaches the
\* handlers of the transfer, which record the file as skipped or raise the
\* cancelled condition: a run is never left with a failed response, nothing
\* more to handle and no handler to run.
C36_ThrottledFailureIsHandled ==
    \A r \in RunIds : ResponseFailedAndDrained(r) => StreamHandlerReady(r)

\* --------------------------------------------------------------------- reset
\* no cancellation was requested since run r started, and it has not ended
NeverCancelled(r) == ~Free(r) /\ run[r].cancelStage = "none"

\* C37: while no cancellation was requested during a run, no cancellation
\* flag is set, the current abort signals and the signals the run's requests
\* carry are not aborted, and the run has raised no cancelled condition,
\* whatever happened to the runs before it.
C37_NewRunStartsUncancelled ==
    \A r \in RunIds :
        NeverCancelled(r) =>
            /\ ~mgr.isCancelled
            /\ ~dl.downloadCancelled
            /\ ~info.aborted[info.cur] /\ ~dl.aborted[dl.cur]
            /\ ~info.aborted[run[r].signal] /\ ~dl.aborted[run[r].getSignal]
            /\ run[r].e \notin CancelledMessages

\* a run that started while the flags of a cancelled run were still set
\* receives its file
C37_Witness ==
    \E r \in RunIds :
        /\ NeverCancelled(r) /\ run[r].startedCancelled
        /\ run[r].pc = "stream"


\* extractFiles has been left by run r, by its return or by a rejection
ExtractionLeft(r) ==
    run[r].extractionStarted = 1 /\ run[r].pc \in {"complete", "done", "rejected"}

\* opening, reading or writing the i-th archive of run r has failed while
\* nobody had asked for a cancellation
FailedArchive(r, i) ==
    /\ i \in run[r].stoppedArchives
    /\ run[r].cancelStage = "none" /\ ~mgr.isCancelled

\* C38: an archive whose extraction failed is still on disk, and once
\* extractFiles has been left every archive after it has been extracted or
\* has failed itself: none is left untouched on disk.
C38_ArchiveErrorAffectsOnlyThatArchive ==
    \A r \in RunIds : \A i \in 1..Len(run[r].archiveFiles) :
        FailedArchive(r, i) =>
            /\ existsSync(run[r].archiveFiles[i].path)
            /\ ExtractionLeft(r) =>
                   \A j \in (i + 1)..Len(run[r].archiveFiles) :
                       \/ j \in run[r].extractedArchives \cup run[r].stoppedArchives
                       \/ ~existsSync(run[r].archiveFiles[j].path)

\* one of the two counting passes is still at work
Counting(r) == run[r].pc \in {"exCountLoop", "exCount"}

\* C39: while a counting pass is at work no entry has been extracted and no
\* progress event has been sent, entries are extracted only after the second
\* pass, and all the progress events of one invocation of extractFiles carry
\* the same pair of totals.
C39_TotalsFixedBeforeExtraction ==
    \A r \in RunIds :
        /\ Counting(r) =>
               /\ run[r].overallExtractedEntryCount = 0
               /\ run[r].extractedFiles = <<>>
               /\ run[r].progressTotals = {}
        /\ run[r].overallExtractedEntryCount > 0 => run[r].pass = 2
        /\ Cardinality(run[r].progressTotals) <= 1

\* extractFiles has returned after two archives were extracted in full, and
\* its progress events carried the totals of the entries of both
C39_Witness ==
    \E r \in RunIds :
        /\ ExtractionReturned(r)
        /\ run[r].extractedArchives = {1, 2}
        /\ run[r].progressTotals = {<<2 * MaxEntries, 2 * MaxEntries>>}

\* C40: the list applyFilters has returned is returned unchanged, the same
\* files in the same order, when the same filters are applied to it.
C40_ApplyFiltersIdempotent ==
    flt.done => applyFilters(flt.finalList, flt.filters) = flt.finalList

\* tag filters, string filters, the highest revision and the priority
\* selection together have removed a file and kept two games
C40_Witness ==
    /\ flt.done
    /\ flt.filters.exclude_tags # {} /\ Len(flt.filters.include_strings) > 0
    /\ flt.filters.rev_mode = "highest" /\ flt.filters.dedupe_mode = "priority"
    /\ Len(flt.finalList) = 2 /\ Len(flt.allFiles) = 3
    /\ flt.finalList[1].base_name # flt.finalList[2].base_name
    /\ applyFilters(flt.finalList, flt.filters) = flt.finalList

====
